---- MODULE Spec2Model ----
(***************************************************************************)
(* Model of the lexical core of color-parser.                              *)
(*                                                                         *)
(*   Spec    the DFA Tokenizer of src/src/Tokenizer.ts: constructor,       *)
(*           public tokenize(), its outer loop, the maximal-munch loop,    *)
(*           string literals, delimiters, the catch block.                 *)
(*   SpecCS  the CharacterStream of src/src/CharacterStream.ts (second     *)
(*           definition, lines 553-688): consume, next, reset, iterator.   *)
(*   SpecDFA the DFATokenizer of src/src/LinkedList.ts: tokenize() and     *)
(*           singleCharToken().                                            *)
(*   SpecFmt formatDiagnostic of src/src/Tokenizer.ts applied to a         *)
(*           DiagnosticError drawn from bounded sets.                      *)
(*   SpecTwo two CharacterStream instances and a Tokenizer, interleaved.   *)
(*   SpecNL  Tokenizer.tokenize of src/src/NewLexer.ts, with the fairness  *)
(*           of sequential code.                                           *)
(*   SpecTS  the CharStream of src/src/TokenStream.ts: peek, consume,      *)
(*           rewind, reset, with tokens and positions as heap objects.     *)
(*   SpecLL  the LinkedList of src/src/LinkedList.ts: append, prepend,     *)
(*           insertAt, removeAt, removeHead, removeTail on linked nodes.   *)
(*                                                                         *)
(* A source text is a sequence of one-character strings; "" is what the    *)
(* code reads at end of input.                                             *)
(***************************************************************************)
EXTENDS Integers, Sequences, FiniteSets, TLC

VARIABLES
    source,         \* Tokenizer.source
    index,          \* Tokenizer.index
    line,           \* Tokenizer.line
    column,         \* Tokenizer.column
    tokens,         \* Tokenizer._tokens
    pc,             \* control point of the constructor / tokenize()
    state,          \* local `state` of the DFA loop
    startPosition,  \* local `startPosition` (DFA) / `startPos` (string literal)
    quoteChar,      \* local `quoteChar` of handleStringLiteral
    value,          \* local `value` of handleStringLiteral
    error,          \* the exception in flight or last caught (NoError if none)
    console,        \* what console.error has printed
    thrown,         \* TRUE when a call let an exception escape to its caller
    calls,          \* number of tokenize() calls made by the caller after construction
    iters,          \* outer-loop iterations started by the running tokenize() call
    csSource,       \* CharacterStream.source
    character,      \* CharacterStream.character
    cursor,         \* CharacterStream.cursor
    history,        \* CharacterStream.#history
    csOp,           \* last public operation called on the stream
    csRet,          \* what that operation returned
    csOps,          \* number of operations called on the stream
    peer,           \* a second CharacterStream instance: its fields and last result
    charStream,     \* CharStream: chars, position, tokens, history
    heap,           \* the CharToken objects created so far
    live,           \* the token whose position object is this.position (0: none)
    issued,         \* the tokens handed to the caller, as they were then
    tsLast,         \* last operation called on the CharStream and its result
    tsOps,          \* number of operations called on the CharStream
    nodes,          \* the ListNode objects created so far
    head,           \* LinkedList.head
    tail,           \* LinkedList.tail
    size,           \* LinkedList.size
    llLast,         \* last operation called on the LinkedList and its outcome
    llOps           \* number of operations called on the LinkedList

tokVars == <<source, index, line, column, tokens, pc, state, startPosition,
             quoteChar, value, error, console, thrown, calls, iters>>
csVars  == <<csSource, character, cursor, history, csOp, csRet, csOps>>
tsVars  == <<charStream, heap, live, issued, tsLast, tsOps>>
llVars  == <<nodes, head, tail, size, llLast, llOps>>
vars    == <<source, index, line, column, tokens, pc, state, startPosition,
             quoteChar, value, error, console, thrown, calls, iters,
             csSource, character, cursor, history, csOp, csRet, csOps, peer,
             charStream, heap, live, issued, tsLast, tsOps,
             nodes, head, tail, size, llLast, llOps>>

(***************************************************************************)
(* Bounds                                                                  *)
(***************************************************************************)
MaxLen == 3
MaxCalls == 1
MaxCsLen == 3
MaxCsOps == 6
MaxTsLen == 2
MaxTsOps == 4
MaxLlLen == 2
MaxLlOps == 2

\* CharStream.maxLength
maxLength == 50

Min(a, b) == IF a < b THEN a ELSE b
Max(a, b) == IF a > b THEN a ELSE b

\* All sequences over S of length 0..n
SeqsUpTo(S, n) == UNION { [1..k -> S] : k \in 0..n }

(***************************************************************************)
(* Input alphabet of the Tokenizer model: at least one character of every  *)
(* class that classify() and the Delimiters map tell apart.  The newline   *)
(* stands for the whitespace class and the backslash for the class Other.  *)
(***************************************************************************)
Digits == {"1"}
Letters == {"e", "p"}
Spaces == {" ", "\n"}
Quotes == {"\"", "'"}
Alphabet == Digits \cup Letters \cup Quotes \cup
            {"\n", ".", "+", "-", "#", "%", "(", ")", ",", "/", "*", "\\"}

(***************************************************************************)
(* Tokenizer.ts: classify, T, Accepting                                    *)
(***************************************************************************)
classify(ch) ==
    CASE ch = ""   -> "EOF"
      [] ch = "."  -> "Dot"
      [] ch = "'"  -> "Quote"
      [] ch = "\"" -> "Quote"
      [] ch = "+"  -> "Plus"
      [] ch = "-"  -> "Minus"
      [] ch = "#"  -> "Hash"
      [] ch = "%"  -> "Percent"
      [] ch = "("  -> "LParen"
      [] ch = ")"  -> "RParen"
      [] ch = ","  -> "Comma"
      [] ch = "/"  -> "Slash"
      [] ch = "*"  -> "Operator"
      [] ch \in Digits  -> "Digit"
      [] ch \in Letters -> "Letter"
      [] ch \in Spaces  -> "Whitespace"
      [] OTHER -> "Other"

Undefined == "undefined"
\* T without the two rows that lead into Percent
T_noPercent(s, c) ==
    CASE s = "Start" /\ c = "Whitespace" -> "Whitespace"
      [] s = "Start" /\ c = "Hash"       -> "Hex"
      [] s = "Start" /\ c = "Digit"      -> "Integer"
      [] s = "Start" /\ c = "Dot"        -> "Fraction"
      [] s = "Start" /\ c = "Letter"     -> "Identifier"
      [] s = "Whitespace" /\ c = "Whitespace" -> "Whitespace"
      [] s = "Integer" /\ c = "Digit"    -> "Integer"
      [] s = "Integer" /\ c = "Dot"      -> "Fraction"
      [] s = "Integer" /\ c = "Letter"   -> "Dimension"
      [] s = "Fraction" /\ c = "Digit"   -> "Fraction"
      [] s = "Fraction" /\ c = "Letter"  -> "Dimension"
      [] s = "Dimension" /\ c = "Letter" -> "Dimension"
      [] s = "Identifier" /\ c = "Letter" -> "Identifier"
      [] s = "Identifier" /\ c = "Digit"  -> "Identifier"
      [] s = "Hex" /\ c = "Digit"        -> "Hex"
      [] s = "Hex" /\ c = "Letter"       -> "Hex"
      [] OTHER -> Undefined

T(s, c) ==
    CASE s = "Start" /\ c = "Whitespace" -> "Whitespace"
      [] s = "Start" /\ c = "Hash"       -> "Hex"
      [] s = "Start" /\ c = "Digit"      -> "Integer"
      [] s = "Start" /\ c = "Dot"        -> "Fraction"
      [] s = "Start" /\ c = "Letter"     -> "Identifier"
      [] s = "Whitespace" /\ c = "Whitespace" -> "Whitespace"
      [] s = "Sign" /\ c = "Digit"       -> "Integer"
      [] s = "Sign" /\ c = "Dot"         -> "Fraction"
      [] s = "Integer" /\ c = "Digit"    -> "Integer"
      [] s = "Integer" /\ c = "Dot"      -> "Fraction"
      [] s = "Integer" /\ c = "Percent"  -> "Percent"
      [] s = "Integer" /\ c = "Letter"   -> "Dimension"
      [] s = "Fraction" /\ c = "Digit"   -> "Fraction"
      [] s = "Fraction" /\ c = "Percent" -> "Percent"
      [] s = "Fraction" /\ c = "Letter"  -> "Dimension"
      [] s = "ExponentStart" /\ c = "Plus"  -> "Exponent"
      [] s = "ExponentStart" /\ c = "Minus" -> "Exponent"
      [] s = "ExponentStart" /\ c = "Digit" -> "Exponent"
      [] s = "Exponent" /\ c = "Digit"   -> "Exponent"
      [] s = "Dimension" /\ c = "Letter" -> "Dimension"
      [] s = "Identifier" /\ c = "Letter" -> "Identifier"
      [] s = "Identifier" /\ c = "Digit"  -> "Identifier"
      [] s = "Hex" /\ c = "Digit"        -> "Hex"
      [] s = "Hex" /\ c = "Letter"       -> "Hex"
      [] OTHER -> Undefined

Accepting(s) ==
    CASE s = "Whitespace" -> "WHITESPACE"
      [] s = "Integer"    -> "NUMBER"
      [] s = "Fraction"   -> "NUMBER"
      [] s = "Exponent"   -> "NUMBER"
      [] s = "Dimension"  -> "DIMENSION"
      [] s = "Identifier" -> "IDENTIFIER"
      [] s = "Hex"        -> "HEXVALUE"
      [] s = "Percent"    -> "PERCENT"
      [] OTHER -> Undefined

(***************************************************************************)
(* Tokenizer.ts: cursor primitives.  A position is the record the code     *)
(* builds in position(); consume works on (source, position).              *)
(***************************************************************************)
Pos(i, l, c) == [index |-> i, line |-> l, column |-> c]

position == Pos(index, line, column)

\* source[i] ?? ''  (0-based i)
charAt(src, i) == IF i >= 0 /\ i < Len(src) THEN src[i + 1] ELSE ""

\* String.prototype.slice(a, b) for 0 <= a, 0 <= b: both ends clamp to the length
slice(src, a, b) == SubSeq(src, Min(a, Len(src)) + 1, Min(b, Len(src)))

\* The character consume() returns at position p
consumed(src, p) == charAt(src, p.index)

\* consume() that does not put the column back to 1 after a line feed
consume_noColumnReset(src, p) ==
    IF charAt(src, p.index) = "\n"
    THEN Pos(p.index + 1, p.line + 1, p.column + 1)
    ELSE Pos(p.index + 1, p.line, p.column + 1)

\* The position after consume() at position p:  index++, then line/column
consume(src, p) ==
    IF charAt(src, p.index) = "\n"
    THEN Pos(p.index + 1, p.line + 1, 1)
    ELSE Pos(p.index + 1, p.line, p.column + 1)

current(src, p) == IF p.index >= Len(src) THEN "" ELSE src[p.index + 1]

isEof(src, p) == p.index >= Len(src)

\* createToken pushes { type, value, start, end }
createToken(toks, type, val, start, end) ==
    Append(toks, [type |-> type, value |-> val, start |-> start, end |-> end])

(***************************************************************************)
(* Tokenizer.ts: DiagnosticError and formatDiagnostic                      *)
(***************************************************************************)
NoError == [name |-> "none"]

DiagnosticError(message, src, start, end, hint) ==
    [name |-> "DiagnosticError", message |-> message, source |-> src,
     start |-> start, end |-> end, hint |-> hint]

\* err.source.split(/\r?\n/), scanning from 1-based i with the line so far in acc
RECURSIVE splitFrom(_, _, _)
splitFrom(s, i, acc) ==
    IF i > Len(s) THEN <<acc>>
    ELSE IF s[i] = "\n" THEN <<acc>> \o splitFrom(s, i + 1, <<>>)
    ELSE IF s[i] = "\r" /\ i < Len(s) /\ s[i + 1] = "\n"
         THEN <<acc>> \o splitFrom(s, i + 2, <<>>)
    ELSE splitFrom(s, i + 1, Append(acc, s[i]))

splitLines(s) == splitFrom(s, 1, <<>>)

\* ch.repeat(n)
repeat(ch, n) == [k \in 1..n |-> ch]

\* parts.join('\n') for parts[i..], each part a text
RECURSIVE joinFrom(_, _)
joinFrom(parts, i) ==
    IF i > Len(parts) THEN <<>>
    ELSE parts[i] \o (IF i < Len(parts) THEN <<"\n">> ELSE <<>>)
                  \o joinFrom(parts, i + 1)

join(parts) == joinFrom(parts, 1)

\* diagnosticParts with the caret line starting at column start.column
diagnosticParts_caretAtColumn(err) ==
    LET lines    == splitLines(err.source)
        ln       == IF err.start.line - 1 >= 0 /\ err.start.line - 1 < Len(lines)
                    THEN lines[err.start.line] ELSE <<>>
        startCol == err.start.column
        width    == Max(1, err.end.index - err.start.index)
        caret    == repeat(" ", startCol) \o repeat("^", width)
        location == <<"line ", ToString(err.start.line), ", column ",
                      ToString(err.start.column)>>
    IN  << <<err.message, " (">> \o location \o <<")">>,
           <<>>,
           ln,
           caret,
           IF err.hint # <<>> THEN <<"\n", "Hint: ">> \o err.hint ELSE <<>> >>

\* diagnosticParts without the last array element
diagnosticParts_fourParts(err) ==
    LET lines    == splitLines(err.source)
        ln       == IF err.start.line - 1 >= 0 /\ err.start.line - 1 < Len(lines)
                    THEN lines[err.start.line] ELSE <<>>
        startCol == err.start.column - 1
        width    == Max(1, err.end.index - err.start.index)
        caret    == repeat(" ", startCol) \o repeat("^", width)
        location == <<"line ", ToString(err.start.line), ", column ",
                      ToString(err.start.column)>>
    IN  << <<err.message, " (">> \o location \o <<")">>,
           <<>>,
           ln,
           caret >>

\* The five elements of the array that formatDiagnostic joins with '\n'
diagnosticParts(err) ==
    LET lines    == splitLines(err.source)
        ln       == IF err.start.line - 1 >= 0 /\ err.start.line - 1 < Len(lines)
                    THEN lines[err.start.line] ELSE <<>>
        startCol == err.start.column - 1
        width    == Max(1, err.end.index - err.start.index)
        caret    == repeat(" ", startCol) \o repeat("^", width)
        location == <<"line ", ToString(err.start.line), ", column ",
                      ToString(err.start.column)>>
    IN  << <<err.message, " (">> \o location \o <<")">>,
           <<>>,
           ln,
           caret,
           IF err.hint # <<>> THEN <<"\n", "Hint: ">> \o err.hint ELSE <<>> >>

\* formatDiagnostic(err): the text, as a sequence of pieces; a line break is
\* always the piece "\n"
formatDiagnostic(err) == join(diagnosticParts(err))

(***************************************************************************)
(* Tokenizer.ts: helpers of the driver                                     *)
(***************************************************************************)
\* A one-character JS string (or '') as a piece of text
Str(ch) == IF ch = "" THEN <<>> ELSE <<ch>>

\* specificTokens without its '*' entry
specificTokens_noStar(ch) ==
    CASE ch = "(" -> "LPAREN"
      [] ch = ")" -> "RPAREN"
      [] ch = "," -> "COMMA"
      [] ch = "/" -> "SLASH"
      [] ch = "+" -> "PLUS"
      [] ch = "-" -> "MINUS"
      [] OTHER -> Undefined

\* specificTokens[char], DELIMITER when the lookup is undefined
specificTokens(ch) ==
    CASE ch = "(" -> "LPAREN"
      [] ch = ")" -> "RPAREN"
      [] ch = "," -> "COMMA"
      [] ch = "/" -> "SLASH"
      [] ch = "+" -> "PLUS"
      [] ch = "-" -> "MINUS"
      [] ch = "*" -> "STAR"
      [] OTHER -> Undefined

\* Delimiters() taking the token's start after consume() instead of before
Delimiters_startAfterConsume(src, p, toks) ==
    LET char  == consumed(src, p)
        after == consume(src, p)
        type  == IF specificTokens(char) = Undefined THEN "DELIMITER"
                 ELSE specificTokens(char)
    IN  [pos |-> after, tokens |-> createToken(toks, type, Str(char), after, after)]

\* Delimiters() reading current() where the code calls consume()
Delimiters_noConsume(src, p, toks) ==
    LET char == current(src, p)
        type == IF specificTokens(char) = Undefined THEN "DELIMITER"
                ELSE specificTokens(char)
    IN  [pos |-> p, tokens |-> createToken(toks, type, Str(char), p, p)]

\* Delimiters(): consume one character and push its token
Delimiters(src, p, toks) ==
    LET start == p
        char  == consumed(src, p)
        after == consume(src, p)
        type  == IF specificTokens(char) = Undefined THEN "DELIMITER"
                 ELSE specificTokens(char)
    IN  [pos |-> after, tokens |-> createToken(toks, type, Str(char), start, after)]

Null == "null"

handleNumericLiteral(currentState, char, charClass) ==
    IF currentState = "Integer" \/ currentState = "Fraction"
    THEN IF charClass = "Letter"
         THEN IF char = "e" \/ char = "E" THEN "ExponentStart" ELSE "Dimension"
         ELSE Null
    ELSE Null

\* NumericLiterals(): the state to go on with, and the cursor after its consume()
NumericLiterals(src, p, st, char, charClass) ==
    LET specialState == handleNumericLiteral(st, char, charClass)
    IN  IF specialState # Null
        THEN [state |-> specialState, pos |-> consume(src, p)]
        ELSE [state |-> st, pos |-> p]

\* The literal the escape test of handleStringLiteral compares against: the
\* source text '\\\\' denotes a string of two backslashes
EscapeLiteral == "\\\\"

(***************************************************************************)
(* Tokenizer: actions                                                      *)
(***************************************************************************)
SetPos(p) == index' = p.index /\ line' = p.line /\ column' = p.column

\* constructor: tokenize() only when the source is not empty
Construct ==
    /\ pc = "new"
    /\ pc' = IF Len(source) > 0 THEN "loop" ELSE "idle"
    /\ iters' = 0
    /\ UNCHANGED <<source, index, line, column, tokens, state, startPosition,
                   quoteChar, value, error, console, thrown, calls>>

\* the caller calls the public tokenize() on a constructed instance
Tokenize ==
    /\ pc = "idle"
    /\ calls < MaxCalls
    /\ calls' = calls + 1
    /\ pc' = "loop"
    /\ iters' = 0
    /\ UNCHANGED <<source, index, line, column, tokens, state, startPosition,
                   quoteChar, value, error, console, thrown>>

\* while (!isEof()) is false: push the EOF token and return
EmitEOF ==
    /\ pc = "loop"
    /\ isEof(source, position)
    /\ tokens' = createToken(tokens, "EOF", <<"<end>">>, position, position)
    /\ pc' = "idle"
    /\ UNCHANGED <<source, index, line, column, state, startPosition,
                   quoteChar, value, error, console, thrown, calls, iters>>

\* the throw of handleStringLiteral with the end position left at the start
unterminatedString_endAtStart(src, start, end, q) ==
    DiagnosticError("Unterminated string literal", src, start, start,
                    <<"A string that starts with ", q,
                      " must be closed with a matching ", q, ".">>)

\* the DiagnosticError thrown after the loop of handleStringLiteral
unterminatedString(src, start, end, q) ==
    DiagnosticError("Unterminated string literal", src, start, end,
                    <<"A string that starts with ", q,
                      " must be closed with a matching ", q, ".">>)

\* StringLiterals() sees a quote: handleStringLiteral consumes the opening quote
StringStart ==
    /\ pc = "loop"
    /\ ~isEof(source, position)
    /\ classify(current(source, position)) = "Quote"
    /\ startPosition' = position
    /\ quoteChar' = consumed(source, position)
    /\ SetPos(consume(source, position))
    /\ value' = <<>>
    /\ pc' = "str"
    /\ iters' = iters + 1
    /\ UNCHANGED <<source, tokens, state, error, console, thrown, calls>>

\* one turn of the while loop of handleStringLiteral, or the throw after it
StringStep ==
    /\ pc = "str"
    /\ LET char == current(source, position) IN
       IF isEof(source, position)
       THEN /\ error' = unterminatedString(source, startPosition, position, quoteChar)
            /\ pc' = "catch"
            /\ UNCHANGED <<index, line, column, tokens, value>>
       ELSE IF char = quoteChar
       THEN /\ SetPos(consume(source, position))
            /\ tokens' = createToken(tokens, "STRING", value, startPosition,
                                     consume(source, position))
            /\ pc' = "loop"
            /\ UNCHANGED <<value, error>>
       ELSE IF char = EscapeLiteral
       THEN /\ SetPos(consume(source, consume(source, position)))
            /\ value' = value \o Str(consumed(source, consume(source, position)))
            /\ UNCHANGED <<tokens, pc, error>>
       ELSE /\ SetPos(consume(source, position))
            /\ value' = value \o Str(consumed(source, position))
            /\ UNCHANGED <<tokens, pc, error>>
    /\ UNCHANGED <<source, state, startPosition, quoteChar, console, thrown,
                   calls, iters>>

\* no quote: record the start position and enter the DFA loop
DfaStart ==
    /\ pc = "loop"
    /\ ~isEof(source, position)
    /\ classify(current(source, position)) # "Quote"
    /\ startPosition' = position
    /\ state' = "Start"
    /\ pc' = "dfa"
    /\ iters' = iters + 1
    /\ UNCHANGED <<source, index, line, column, tokens, quoteChar, value, error,
                   console, thrown, calls>>

\* one turn of the DFA loop
DfaStep ==
    /\ pc = "dfa"
    /\ LET innerChar      == current(source, position)
           innerCharClass == classify(innerChar)
           nl             == NumericLiterals(source, position, state, innerChar,
                                             innerCharClass)
           nextState      == T(nl.state, innerCharClass)
       IN  IF nextState = Undefined
           THEN /\ state' = nl.state
                /\ SetPos(nl.pos)
                /\ pc' = "emit"
           ELSE /\ state' = nextState
                /\ SetPos(consume(source, nl.pos))
                /\ pc' = "dfa"
    /\ UNCHANGED <<source, tokens, startPosition, quoteChar, value, error,
                   console, thrown, calls, iters>>

\* the switch on the state the DFA loop halted in
Emit ==
    /\ pc = "emit"
    /\ LET endPosition == position
           tokenValue  == slice(source, startPosition.index, endPosition.index)
           d           == Delimiters(source, position, tokens)
       IN  CASE state = "Start" ->
                  /\ IF ~isEof(source, position)
                     THEN SetPos(d.pos) /\ tokens' = d.tokens
                     ELSE UNCHANGED <<index, line, column, tokens>>
                  /\ pc' = "loop"
                  /\ UNCHANGED error
             [] state = "Whitespace" ->
                  /\ tokens' = createToken(tokens, "WHITESPACE", tokenValue,
                                           startPosition, endPosition)
                  /\ pc' = "loop"
                  /\ UNCHANGED <<index, line, column, error>>
             [] state = "Percent" ->
                  /\ tokens' = createToken(tokens, "PERCENT",
                                           SubSeq(tokenValue, 1, Len(tokenValue) - 1),
                                           startPosition, endPosition)
                  /\ pc' = "loop"
                  /\ UNCHANGED <<index, line, column, error>>
             [] state \in {"Identifier", "Hex", "Integer", "Fraction", "Exponent",
                           "Dimension"} ->
                  IF Accepting(state) = Undefined
                  THEN /\ error' = DiagnosticError("Invalid token state", source,
                                       startPosition, endPosition,
                                       <<"The tokenizer entered a state that is not a valid accepting state.">>)
                       /\ pc' = "catch"
                       /\ UNCHANGED <<index, line, column, tokens>>
                  ELSE /\ tokens' = createToken(tokens, Accepting(state), tokenValue,
                                                startPosition, endPosition)
                       /\ pc' = "loop"
                       /\ UNCHANGED <<index, line, column, error>>
             [] OTHER ->
                  /\ error' = DiagnosticError("Invalid token", source,
                                  startPosition, endPosition,
                                  <<"Check the CSS color syntax at this location">>)
                  /\ pc' = "catch"
                  /\ UNCHANGED <<index, line, column, tokens>>
    /\ UNCHANGED <<source, state, startPosition, quoteChar, value, console,
                   thrown, calls, iters>>

\* catch (error): a DiagnosticError is printed, anything else is rethrown
Catch ==
    /\ pc = "catch"
    /\ IF error.name = "DiagnosticError"
       THEN console' = Append(console, formatDiagnostic(error)) /\ UNCHANGED thrown
       ELSE thrown' = TRUE /\ UNCHANGED console
    /\ pc' = "idle"
    /\ UNCHANGED <<source, index, line, column, tokens, state, startPosition,
                   quoteChar, value, error, calls, iters>>

(***************************************************************************)
(* CharacterStream.ts (second definition): Character and CharacterStream   *)
(*                                                                         *)
(* The constructor input is drawn from ASCII characters, on which          *)
(* normalize('NFC') changes nothing, so csSource is the input itself.      *)
(***************************************************************************)
CsNewlines == {"\n", "\r"}
CsAlphabet == {"a", "1", " ", "\n", "\r", "%"}

\* Character.classify over the model's alphabet: CharMap first, then the
\* CharSpec tests in their order (Newline before Whitespace)
csClassify(ch) ==
    CASE ch = ""  -> "Other"
      [] ch = "%" -> "Percent"
      [] ch \in CsNewlines -> "Newline"
      [] ch = " " -> "Whitespace"
      [] ch = "a" -> "Letter"
      [] ch = "1" -> "Digit"
      [] OTHER -> "Other"

\* new Character({ value, index, line, column }): the type is classified
Character(val, i, l, c) ==
    [value |-> val, type |-> csClassify(val), index |-> i, line |-> l, column |-> c]

\* new Character({ value: '', type: EOF, index, line, column })
EofCharacter(i, l, c) ==
    [value |-> "", type |-> "EOF", index |-> i, line |-> l, column |-> c]

\* init(): the character the stream starts on
initCharacter(src) ==
    IF Len(src) = 0 THEN EofCharacter(0, 1, 1) ELSE Character(src[1], 0, 1, 1)

\* isAtEnd() that answers true one character early
isAtEnd_oneEarly(src, cur) == cur + 1 >= Len(src)

\* isAtEnd() for a cursor value
isAtEnd(src, cur) == cur >= Len(src)

\* EOFChar() called with cursor cur while this.character is still ch
EOFChar(cur, ch) == EofCharacter(cur, ch.line, ch.column + 1)

\* advance(): the character after prev, cursor already incremented to cur
advance(src, cur, prev) ==
    IF isAtEnd(src, cur) THEN EOFChar(cur, prev)
    ELSE LET isNewline == prev.value = "\n" \/ prev.type = "Newline"
         IN  Character(src[cur + 1], cur,
                       IF isNewline THEN prev.line + 1 ELSE prev.line,
                       IF isNewline THEN 1 ELSE prev.column + 1)

\* consume() without the test for EOF
consumeCs_noEofGuard(src, ch, cur, hist) ==
    [character |-> advance(src, cur + 1, ch), cursor |-> cur + 1,
     history |-> Append(hist, ch), ret |-> ch]

\* consume() as a function of the stream state: the new character, cursor and
\* history, and the character returned
consumeCs(src, ch, cur, hist) ==
    IF ch.type # "EOF"
    THEN [character |-> advance(src, cur + 1, ch), cursor |-> cur + 1,
          history |-> Append(hist, ch), ret |-> ch]
    ELSE [character |-> ch, cursor |-> cur, history |-> hist, ret |-> ch]

\* stream.consume()
CsConsume ==
    /\ csOps < MaxCsOps
    /\ LET r == consumeCs(csSource, character, cursor, history)
       IN  /\ character' = r.character
           /\ cursor' = r.cursor
           /\ history' = r.history
           /\ csRet' = [done |-> FALSE, value |-> r.ret]
    /\ csOp' = "consume"
    /\ csOps' = csOps + 1
    /\ UNCHANGED csSource

\* next() that never reports done
CsNext_neverDone ==
    /\ csOps < MaxCsOps
    /\ LET r == consumeCs(csSource, character, cursor, history)
       IN  /\ character' = r.character
           /\ cursor' = r.cursor
           /\ history' = r.history
           /\ csRet' = [done |-> FALSE, value |-> r.ret]
    /\ csOp' = "next"
    /\ csOps' = csOps + 1
    /\ UNCHANGED csSource

\* stream.next()
CsNext ==
    /\ csOps < MaxCsOps
    /\ IF character.type = "EOF"
       THEN /\ csRet' = [done |-> TRUE, value |-> character]
            /\ UNCHANGED <<character, cursor, history>>
       ELSE LET r == consumeCs(csSource, character, cursor, history)
            IN  /\ character' = r.character
                /\ cursor' = r.cursor
                /\ history' = r.history
                /\ csRet' = [done |-> FALSE, value |-> r.ret]
    /\ csOp' = "next"
    /\ csOps' = csOps + 1
    /\ UNCHANGED csSource

\* reset() that leaves the history as it is
CsReset_keepsHistory ==
    /\ csOps < MaxCsOps
    /\ cursor' = 0
    /\ character' = initCharacter(csSource)
    /\ csRet' = [done |-> FALSE, value |-> initCharacter(csSource)]
    /\ csOp' = "reset"
    /\ csOps' = csOps + 1
    /\ UNCHANGED <<csSource, history>>

\* stream.reset(): init() and return this (seen through its current character)
CsReset ==
    /\ csOps < MaxCsOps
    /\ cursor' = 0
    /\ history' = <<>>
    /\ character' = initCharacter(csSource)
    /\ csRet' = [done |-> FALSE, value |-> initCharacter(csSource)]
    /\ csOp' = "reset"
    /\ csOps' = csOps + 1
    /\ UNCHANGED csSource

\* stream[Symbol.iterator]() that returns the stream without reset()
CsIterator_noReset ==
    /\ csOps < MaxCsOps
    /\ csRet' = [done |-> FALSE, value |-> character]
    /\ csOp' = "iterator"
    /\ csOps' = csOps + 1
    /\ UNCHANGED <<csSource, cursor, history, character>>

\* stream[Symbol.iterator](): reset() and return this
CsIterator ==
    /\ csOps < MaxCsOps
    /\ cursor' = 0
    /\ history' = <<>>
    /\ character' = initCharacter(csSource)
    /\ csRet' = [done |-> FALSE, value |-> initCharacter(csSource)]
    /\ csOp' = "iterator"
    /\ csOps' = csOps + 1
    /\ UNCHANGED csSource

(***************************************************************************)
(* TokenStream.ts: class CharStream.  `charStream` holds the fields of one *)
(* instance.  CharToken objects live in `heap`, a token's identity being   *)
(* its index there; charStream.history holds identities, as the array in   *)
(* the code holds references.  retreat() assigns a token's position object *)
(* to this.position, so from then on the two are one object: `live` is the *)
(* identity of the token whose position object the stream writes to (0     *)
(* while this.position is still the object of the field initializer).      *)
(* init() also writes to console.log, which no operation reads.            *)
(***************************************************************************)
TsAlphabet == {"a", "\n"}

\* classify over texts of TsAlphabet: the CharSpec tests in their order; the
\* regular expressions match a character anywhere in the text, the
\* comparisons with === match one character only, and no test matches ''
tsClassify(char) ==
    IF \E k \in 1..Len(char) : char[k] = "\n" THEN "Whitespace"
    ELSE IF \E k \in 1..Len(char) : char[k] = "a" THEN "Letter"
    ELSE "Other"

\* the loop of split(): code point i onwards, with `lines` and `buffer`
RECURSIVE splitLoop(_, _, _, _)
splitLoop(codePoints, i, lines, buffer) ==
    IF i > Len(codePoints)
    THEN IF Len(buffer) > 0 THEN Append(lines, buffer) ELSE lines
    ELSE IF codePoints[i] = "\n"
    THEN splitLoop(codePoints, i + 1, Append(lines, buffer), <<>>)
    ELSE IF Len(buffer) + 1 >= maxLength
    THEN splitLoop(codePoints, i + 1,
                   Append(lines, Append(buffer, codePoints[i])), <<>>)
    ELSE splitLoop(codePoints, i + 1, lines, Append(buffer, codePoints[i]))

\* split(input): the code points one by one for a long input, otherwise an
\* array of ONE element, the lines joined again
split(input) ==
    IF Len(input) >= maxLength
    THEN [k \in 1..Len(input) |-> <<input[k]>>]
    ELSE <<join(splitLoop(input, 1, <<>>, <<>>))>>

\* isEOF()
tsIsEOF(cs) == cs.position.index >= Len(cs.chars)

\* makeToken(ch): getPosition() copies the three fields
makeToken(ch, pos) ==
    [char |-> ch, class |-> tsClassify(ch), position |-> Pos(pos.index, pos.line, pos.column)]

\* EOFToken()
EOFToken(pos) ==
    [char |-> <<>>, class |-> "EOF", position |-> Pos(pos.index, pos.line, pos.column)]

\* advance(ch) applied to the position pos
tsAdvance(pos, ch) ==
    IF ch = <<"\n">> THEN Pos(pos.index + 1, pos.line + 1, 1)
    ELSE Pos(pos.index + 1, pos.line, pos.column + 1)

\* peek(): the token it builds
peek(cs) ==
    IF tsIsEOF(cs) THEN EOFToken(cs.position)
    ELSE makeToken(cs.chars[cs.position.index + 1], cs.position)

\* new CharStream(input): in init() the test `!this.isEOF` negates the method
\* itself, not its result, so the loop body never runs and `tokens` receives
\* the EOF token only
newCharStream(input) ==
    [chars    |-> split(input),
     position |-> Pos(0, 1, 1),
     tokens   |-> <<EOFToken(Pos(0, 1, 1))>>,
     history  |-> <<>>]

\* a write of pos through this.position: the stream's field, and the position
\* of the token that shares the object
written(h, pos) ==
    IF live = 0 THEN h ELSE [h EXCEPT ![live].position = pos]

\* what the caller remembers of a call: its name, the identity of the token
\* returned (0 for null) and the position and history before the call
Called(name, ret) ==
    [op |-> name, ret |-> ret,
     before |-> [position |-> charStream.position, history |-> charStream.history]]

\* the record of a token handed to the caller: its identity and the position
\* it showed at that moment
Handed(id, pos) == [id |-> id, position |-> pos]

\* stream.peek()
TsPeek ==
    /\ tsOps < MaxTsOps
    /\ heap' = Append(heap, peek(charStream))
    /\ issued' = Append(issued, Handed(Len(heap) + 1, peek(charStream).position))
    /\ tsLast' = Called("peek", Len(heap) + 1)
    /\ tsOps' = tsOps + 1
    /\ UNCHANGED <<charStream, live>>

\* stream.consume()
TsConsume ==
    LET token == peek(charStream)
        id    == Len(heap) + 1
        after == tsAdvance(charStream.position, token.char)
    IN  /\ tsOps < MaxTsOps
        /\ IF token.class # "EOF"
           THEN /\ charStream' = [charStream EXCEPT
                                    !.history = Append(@, id), !.position = after]
                /\ heap' = written(Append(heap, token), after)
           ELSE /\ heap' = Append(heap, token)
                /\ UNCHANGED charStream
        /\ issued' = Append(issued, Handed(id, token.position))
        /\ tsLast' = Called("consume", id)
        /\ tsOps' = tsOps + 1
        /\ UNCHANGED live

\* stream.rewind() that leaves the token in the history
TsRewind_keepsHistory ==
    /\ tsOps < MaxTsOps
    /\ IF charStream.history = <<>>
       THEN /\ tsLast' = Called("rewind", 0)
            /\ UNCHANGED <<charStream, heap, live, issued>>
       ELSE LET token == charStream.history[Len(charStream.history)]
            IN  /\ charStream' = [charStream EXCEPT !.position = heap[token].position]
                /\ live' = token
                /\ issued' = Append(issued, Handed(token, heap[token].position))
                /\ tsLast' = Called("rewind", token)
                /\ UNCHANGED heap
    /\ tsOps' = tsOps + 1

\* stream.rewind(): history.pop(), then retreat(token)
TsRewind ==
    /\ tsOps < MaxTsOps
    /\ IF charStream.history = <<>>
       THEN /\ tsLast' = Called("rewind", 0)
            /\ UNCHANGED <<charStream, heap, live, issued>>
       ELSE LET token == charStream.history[Len(charStream.history)]
            IN  /\ charStream' = [charStream EXCEPT
                      !.history = SubSeq(@, 1, Len(@) - 1),
                      !.position = heap[token].position]
                /\ live' = token
                /\ issued' = Append(issued, Handed(token, heap[token].position))
                /\ tsLast' = Called("rewind", token)
                /\ UNCHANGED heap
    /\ tsOps' = tsOps + 1

\* stream.reset(): the three fields of this.position are written in place
TsReset ==
    /\ tsOps < MaxTsOps
    /\ charStream' = [charStream EXCEPT !.position = Pos(0, 1, 1), !.history = <<>>]
    /\ heap' = written(heap, Pos(0, 1, 1))
    /\ tsLast' = Called("reset", 0)
    /\ tsOps' = tsOps + 1
    /\ UNCHANGED <<live, issued>>

(***************************************************************************)
(* LinkedList.ts: classes ListNode and LinkedList.  ListNode objects live  *)
(* in `nodes`, a node's identity being its index there and 0 standing for  *)
(* null; `head`, `tail` and `size` are the fields of one list.  A node     *)
(* that is unlinked stays in `nodes` as garbage.  An operation is a        *)
(* function of the list [nodes, head, tail, size] to the list after it,    *)
(* whether it threw, and what it returned.                                 *)
(***************************************************************************)
LlData == {"x", "y"}

NullNode == 0

\* new ListNode(data)
ListNode(data) == [data |-> data, next |-> NullNode, prev |-> NullNode]

List(ns, h, t, sz) == [nodes |-> ns, head |-> h, tail |-> t, size |-> sz]

\* new LinkedList()
newList == List(<<>>, NullNode, NullNode, 0)

Returned(l, ret) == [list |-> l, thrown |-> FALSE, ret |-> ret]
Thrown(l) == [list |-> l, thrown |-> TRUE, ret |-> Null]

\* append(data)
append(l, data) ==
    LET newNode == Len(l.nodes) + 1
        ns      == Append(l.nodes, ListNode(data))
    IN  IF l.tail # NullNode
        THEN List([ns EXCEPT ![l.tail].next = newNode, ![newNode].prev = l.tail],
                  l.head, newNode, l.size + 1)
        ELSE List(ns, newNode, newNode, l.size + 1)

\* prepend(data) that forgets to move head
prepend_headStays(l, data) ==
    LET newNode == Len(l.nodes) + 1
        ns      == Append(l.nodes, ListNode(data))
    IN  IF l.head # NullNode
        THEN List([ns EXCEPT ![l.head].prev = newNode, ![newNode].next = l.head],
                  l.head, l.tail, l.size + 1)
        ELSE List(ns, newNode, newNode, l.size + 1)

\* prepend(data)
prepend(l, data) ==
    LET newNode == Len(l.nodes) + 1
        ns      == Append(l.nodes, ListNode(data))
    IN  IF l.head # NullNode
        THEN List([ns EXCEPT ![l.head].prev = newNode, ![newNode].next = l.head],
                  newNode, l.tail, l.size + 1)
        ELSE List(ns, newNode, newNode, l.size + 1)

\* what walk answers when the loop read .next of null and threw
Broken == -1

\* the loop `while (index < position) current = current.next`, from node n
\* with position - index = k steps to go
RECURSIVE walk(_, _, _)
walk(ns, n, k) ==
    IF k <= 0 THEN n
    ELSE IF n = NullNode THEN Broken
    ELSE walk(ns, ns[n].next, k - 1)

\* removeHead()
removeHead(l) ==
    IF l.size = 0 \/ l.head = NullNode THEN Thrown(l)
    ELSE LET data == l.nodes[l.head].data
             h    == l.nodes[l.head].next
         IN  IF h # NullNode
             THEN Returned(List([l.nodes EXCEPT ![h].prev = NullNode],
                                h, l.tail, l.size - 1), data)
             ELSE Returned(List(l.nodes, h, NullNode, l.size - 1), data)

\* removeTail()
removeTail(l) ==
    IF l.size = 0 \/ l.tail = NullNode THEN Thrown(l)
    ELSE LET data == l.nodes[l.tail].data
             t    == l.nodes[l.tail].prev
         IN  IF t # NullNode
             THEN Returned(List([l.nodes EXCEPT ![t].next = NullNode],
                                l.head, t, l.size - 1), data)
             ELSE Returned(List(l.nodes, NullNode, t, l.size - 1), data)

\* insertAt(data, position)
insertAt(l, data, at) ==
    IF at < 0 \/ at > l.size - 1 THEN Thrown(l)
    ELSE IF at = 0 THEN Returned(prepend(l, data), Null)
    ELSE IF at = l.size THEN Returned(append(l, data), Null)
    ELSE LET currentNode == walk(l.nodes, l.head, at)
             newNode     == Len(l.nodes) + 1
             ns          == Append(l.nodes, ListNode(data))
         IN  IF currentNode = Broken \/ currentNode = NullNode THEN Thrown(l)
             ELSE IF l.nodes[currentNode].prev = NullNode THEN Thrown(l)
             ELSE Returned(
                    List([ns EXCEPT ![newNode].next = currentNode,
                                    ![newNode].prev = l.nodes[currentNode].prev,
                                    ![l.nodes[currentNode].prev].next = newNode,
                                    ![currentNode].prev = newNode],
                         l.head, l.tail, l.size + 1),
                    Null)

\* removeAt(position); the two writes happen in the order of the code, so a
\* null current.next throws after current.prev.next was written
removeAt(l, at) ==
    IF at < 0 \/ at > l.size - 1 THEN Thrown(l)
    ELSE IF at = 0 THEN removeHead(l)
    ELSE IF at = l.size - 1 THEN removeTail(l)
    ELSE LET cur == walk(l.nodes, l.head, at)
         IN  IF cur = Broken \/ cur = NullNode THEN Thrown(l)
             ELSE IF l.nodes[cur].prev = NullNode THEN Thrown(l)
             ELSE LET p  == l.nodes[cur].prev
                      n  == l.nodes[cur].next
                      n1 == [l.nodes EXCEPT ![p].next = n]
                  IN  IF n = NullNode
                      THEN Thrown(List(n1, l.head, l.tail, l.size))
                      ELSE Returned(List([n1 EXCEPT ![n].prev = p],
                                         l.head, l.tail, l.size - 1),
                                    l.nodes[cur].data)

\* getAt(position)
getAt(l, at) ==
    IF at < 0 \/ at >= l.size THEN Thrown(l)
    ELSE LET cur == walk(l.nodes, l.head, at)
         IN  IF cur = Broken \/ cur = NullNode THEN Thrown(l)
             ELSE Returned(l, l.nodes[cur].data)

\* the list object of the model's variables
theList == List(nodes, head, tail, size)

\* the data from node n along next, at most k of them
RECURSIVE dataFrom(_, _, _)
dataFrom(ns, n, k) ==
    IF n = NullNode \/ k = 0 THEN <<>>
    ELSE <<ns[n].data>> \o dataFrom(ns, ns[n].next, k - 1)

\* what the caller remembers of a call: its name and arguments, whether it
\* threw, and the size and the data in list order before the call
Did(name, data, at, r) ==
    [op |-> name, data |-> data, position |-> at, thrown |-> r.thrown,
     before |-> [size |-> size, data |-> dataFrom(nodes, head, Len(nodes))]]

\* the effect of a call with result r on the variables
Does(name, data, at, r) ==
    /\ llOps < MaxLlOps
    /\ nodes' = r.list.nodes
    /\ head' = r.list.head
    /\ tail' = r.list.tail
    /\ size' = r.list.size
    /\ llLast' = Did(name, data, at, r)
    /\ llOps' = llOps + 1

\* positions a caller tries on the list: all valid ones and one beyond each end
LlPositions == -1 .. size + 1

LlAppend == \E d \in LlData : Does("append", d, Null, Returned(append(theList, d), Null))

LlPrepend == \E d \in LlData : Does("prepend", d, Null, Returned(prepend(theList, d), Null))

LlInsertAt ==
    \E d \in LlData, p \in LlPositions : Does("insertAt", d, p, insertAt(theList, d, p))

LlRemoveAt == \E p \in LlPositions : Does("removeAt", Null, p, removeAt(theList, p))

LlRemoveHead == Does("removeHead", Null, Null, removeHead(theList))

LlRemoveTail == Does("removeTail", Null, Null, removeTail(theList))

\* the list after append(data[1]), append(data[2]), ...
RECURSIVE listOf(_)
listOf(data) ==
    IF data = <<>> THEN newList
    ELSE append(listOf(SubSeq(data, 1, Len(data) - 1)), data[Len(data)])

\* The CharStream variables while no CharStream is exercised
tsIdle ==
    /\ charStream = newCharStream(<<>>)
    /\ heap = <<>>
    /\ live = 0
    /\ issued = <<>>
    /\ tsLast = [op |-> "new", ret |-> 0,
                 before |-> [position |-> Pos(0, 1, 1), history |-> <<>>]]
    /\ tsOps = 0

\* The LinkedList variables while no LinkedList is exercised
llIdle ==
    /\ nodes = <<>>
    /\ head = NullNode
    /\ tail = NullNode
    /\ size = 0
    /\ llLast = [op |-> "new", data |-> Null, position |-> Null, thrown |-> FALSE,
                 before |-> [size |-> 0, data |-> <<>>]]
    /\ llOps = 0

\* The CharacterStream variables while only a Tokenizer is exercised
\* a second instance: new CharacterStream(src)
newStream(src) ==
    [source |-> src, character |-> initCharacter(src), cursor |-> 0,
     history |-> <<>>,
     ret |-> [done |-> FALSE, value |-> initCharacter(src)]]

csIdle ==
    /\ peer = newStream(<<>>)
    /\ tsIdle
    /\ llIdle
    /\ csSource = <<>>
    /\ character = initCharacter(<<>>)
    /\ cursor = 0
    /\ history = <<>>
    /\ csOp = "new"
    /\ csRet = [done |-> FALSE, value |-> initCharacter(<<>>)]
    /\ csOps = 0

Init ==
    /\ source \in SeqsUpTo(Alphabet, MaxLen)
    /\ index = 0
    /\ line = 1
    /\ column = 1
    /\ tokens = <<>>
    /\ pc = "new"
    /\ state = "Start"
    /\ startPosition = Pos(0, 1, 1)
    /\ quoteChar = ""
    /\ value = <<>>
    /\ error = NoError
    /\ console = <<>>
    /\ thrown = FALSE
    /\ calls = 0
    /\ iters = 0
    /\ csIdle

Next ==
    \/ Construct /\ UNCHANGED <<csVars, peer, tsVars, llVars>>
    \/ Tokenize /\ UNCHANGED <<csVars, peer, tsVars, llVars>>
    \/ EmitEOF /\ UNCHANGED <<csVars, peer, tsVars, llVars>>
    \/ StringStart /\ UNCHANGED <<csVars, peer, tsVars, llVars>>
    \/ StringStep /\ UNCHANGED <<csVars, peer, tsVars, llVars>>
    \/ DfaStart /\ UNCHANGED <<csVars, peer, tsVars, llVars>>
    \/ DfaStep /\ UNCHANGED <<csVars, peer, tsVars, llVars>>
    \/ Emit /\ UNCHANGED <<csVars, peer, tsVars, llVars>>
    \/ Catch /\ UNCHANGED <<csVars, peer, tsVars, llVars>>

Spec == Init /\ [][Next]_vars

\* The Tokenizer variables while only a CharacterStream is exercised
tokIdle ==
    /\ source = <<>>
    /\ index = 0
    /\ line = 1
    /\ column = 1
    /\ tokens = <<>>
    /\ pc = "new"
    /\ state = "Start"
    /\ startPosition = Pos(0, 1, 1)
    /\ quoteChar = ""
    /\ value = <<>>
    /\ error = NoError
    /\ console = <<>>
    /\ thrown = FALSE
    /\ calls = 0
    /\ iters = 0

\* new CharacterStream(input)
InitCS ==
    /\ peer = newStream(<<>>)
    /\ tsIdle
    /\ llIdle
    /\ csSource \in SeqsUpTo(CsAlphabet, MaxCsLen)
    /\ cursor = 0
    /\ history = <<>>
    /\ character = initCharacter(csSource)
    /\ csOp = "new"
    /\ csRet = [done |-> FALSE, value |-> initCharacter(csSource)]
    /\ csOps = 0
    /\ tokIdle

NextCS ==
    \/ CsConsume /\ UNCHANGED <<tokVars, peer, tsVars, llVars>>
    \/ CsNext /\ UNCHANGED <<tokVars, peer, tsVars, llVars>>
    \/ CsReset /\ UNCHANGED <<tokVars, peer, tsVars, llVars>>
    \/ CsIterator /\ UNCHANGED <<tokVars, peer, tsVars, llVars>>

SpecCS == InitCS /\ [][NextCS]_vars

(***************************************************************************)
(* Several instances side by side: SpecTwo runs a CharacterStream, a       *)
(* second CharacterStream (`peer`) and a Tokenizer, each on its own input, *)
(* with their operations interleaved in every order.  An operation reads   *)
(* and writes the fields of its own instance; the static CharMap, CharSpec *)
(* and classify, and the module-level tables of Tokenizer.ts, are only     *)
(* read.                                                                   *)
(***************************************************************************)
MaxTwoLen == 1
MaxTwoOps == 2

TwoStreamAlphabet == {"a", "\n"}
TwoTokenAlphabet == {"1", "'"}

\* the second instance after consume()
peerConsume(p) ==
    LET r == consumeCs(p.source, p.character, p.cursor, p.history)
    IN  [source |-> p.source, character |-> r.character, cursor |-> r.cursor,
         history |-> r.history, ret |-> [done |-> FALSE, value |-> r.ret]]

\* the second instance after next()
peerNext(p) ==
    IF p.character.type = "EOF"
    THEN [p EXCEPT !.ret = [done |-> TRUE, value |-> p.character]]
    ELSE peerConsume(p)

\* peer.reset() that also puts the first instance's cursor back to 0
PeerReset_sharedCursor ==
    /\ peer' = newStream(peer.source)
    /\ cursor' = 0
    /\ UNCHANGED <<tokVars, csSource, character, history, csOp, csRet, csOps,
                 tsVars, llVars>>

\* peer.consume()
PeerConsume ==
    /\ peer' = peerConsume(peer)
    /\ UNCHANGED <<tokVars, csVars, tsVars, llVars>>

\* peer.next()
PeerNext ==
    /\ peer' = peerNext(peer)
    /\ UNCHANGED <<tokVars, csVars, tsVars, llVars>>

\* peer.reset()
PeerReset ==
    /\ peer' = newStream(peer.source)
    /\ UNCHANGED <<tokVars, csVars, tsVars, llVars>>

\* new CharacterStream(a), new CharacterStream(b), new Tokenizer(c) called
InitTwo ==
    /\ csSource \in SeqsUpTo(TwoStreamAlphabet, MaxTwoLen)
    /\ cursor = 0
    /\ history = <<>>
    /\ character = initCharacter(csSource)
    /\ csOp = "new"
    /\ csRet = [done |-> FALSE, value |-> initCharacter(csSource)]
    /\ csOps = 0
    /\ \E b \in SeqsUpTo(TwoStreamAlphabet, MaxTwoLen) : peer = newStream(b)
    /\ tsIdle
    /\ llIdle
    /\ source \in SeqsUpTo(TwoTokenAlphabet, MaxTwoLen)
    /\ index = 0
    /\ line = 1
    /\ column = 1
    /\ tokens = <<>>
    /\ pc = "new"
    /\ state = "Start"
    /\ startPosition = Pos(0, 1, 1)
    /\ quoteChar = ""
    /\ value = <<>>
    /\ error = NoError
    /\ console = <<>>
    /\ thrown = FALSE
    /\ calls = 0
    /\ iters = 0

NextTwo ==
    \/ csOps < MaxTwoOps /\ CsConsume /\ UNCHANGED <<tokVars, peer, tsVars, llVars>>
    \/ csOps < MaxTwoOps /\ CsNext /\ UNCHANGED <<tokVars, peer, tsVars, llVars>>
    \/ csOps < MaxTwoOps /\ CsReset /\ UNCHANGED <<tokVars, peer, tsVars, llVars>>
    \/ PeerConsume
    \/ PeerNext
    \/ PeerReset
    \/ Construct /\ UNCHANGED <<csVars, peer, tsVars, llVars>>
    \/ Tokenize /\ UNCHANGED <<csVars, peer, tsVars, llVars>>
    \/ EmitEOF /\ UNCHANGED <<csVars, peer, tsVars, llVars>>
    \/ StringStart /\ UNCHANGED <<csVars, peer, tsVars, llVars>>
    \/ StringStep /\ UNCHANGED <<csVars, peer, tsVars, llVars>>
    \/ DfaStart /\ UNCHANGED <<csVars, peer, tsVars, llVars>>
    \/ DfaStep /\ UNCHANGED <<csVars, peer, tsVars, llVars>>
    \/ Emit /\ UNCHANGED <<csVars, peer, tsVars, llVars>>
    \/ Catch /\ UNCHANGED <<csVars, peer, tsVars, llVars>>

SpecTwo == InitTwo /\ [][NextTwo]_vars

(***************************************************************************)
(* formatDiagnostic as a pure function: SpecFmt draws a DiagnosticError    *)
(* into `error` and one step writes formatDiagnostic(error) to `console`.  *)
(***************************************************************************)
MaxFmtLen == 3
MaxFmtLine == 3
MaxFmtCol == 5
MaxFmtWidth == 2

FmtAlphabet == {"a", "\n", "\r"}

FmtHints == {<<>>, <<"h">>}

\* the caller formats the error it holds
Format ==
    /\ pc = "new"
    /\ error # NoError
    /\ console' = Append(console, formatDiagnostic(error))
    /\ pc' = "idle"
    /\ UNCHANGED <<source, index, line, column, tokens, state, startPosition,
                   quoteChar, value, error, thrown, calls, iters>>

\* new DiagnosticError(message, source, start, end, hint?)
InitFmt ==
    /\ source \in SeqsUpTo(FmtAlphabet, MaxFmtLen)
    /\ \E i \in 0..MaxFmtLen, l \in 1..MaxFmtLine, c \in 1..MaxFmtCol,
          w \in 0..MaxFmtWidth, h \in FmtHints :
          error = DiagnosticError("Invalid token", source, Pos(i, l, c),
                                  Pos(i + w, l, c + w), h)
    /\ index = 0
    /\ line = 1
    /\ column = 1
    /\ tokens = <<>>
    /\ pc = "new"
    /\ state = "Start"
    /\ startPosition = Pos(0, 1, 1)
    /\ quoteChar = ""
    /\ value = <<>>
    /\ console = <<>>
    /\ thrown = FALSE
    /\ calls = 0
    /\ iters = 0
    /\ csIdle

NextFmt == Format /\ UNCHANGED <<csVars, peer, tsVars, llVars>>

SpecFmt == InitFmt /\ [][NextFmt]_vars

(***************************************************************************)
(* LinkedList.ts, second half: DFATokenizer.  It has the same fields as    *)
(* Tokenizer (source, index, line, column) and textually the same          *)
(* consume/current/position/isEof, so SpecDFA runs it on the same          *)
(* variables; `tokens` is the local list of tokenize(), `startPosition`    *)
(* its local startPos.  Its exceptions are not caught.                     *)
(***************************************************************************)
MaxDfaLen == 4

DfaLetters == {"f"}
DfaAlphabet == DfaLetters \cup {"1", "(", ",", "#", "%", "+", ".", " "}

\* enum TokenType of LinkedList.ts: numeric, HEXCOLOR is 0
HEXCOLOR == 0
FUNCTION == 1
IDENT == 2
NUMBER == 3
PERCENT == 4
DIMENSION == 5
COMMA == 6
SLASH == 7
LPAREN == 8
RPAREN == 9
WHITESPACE == 10
EOF == 11

\* classify of LinkedList.ts
dfaClassify(ch) ==
    CASE ch = ""  -> "EOF"
      [] ch = "1" -> "Digit"
      [] ch = "." -> "Dot"
      [] ch = "+" -> "Plus"
      [] ch = "-" -> "Minus"
      [] ch = "#" -> "Hash"
      [] ch \in DfaLetters \cup {"_"} -> "Letter"
      [] ch = "%" -> "Percent"
      [] ch = "(" -> "LParen"
      [] ch = ")" -> "RParen"
      [] ch = "," -> "Comma"
      [] ch = "/" -> "Slash"
      [] ch \in {" ", "\t", "\n"} -> "Whitespace"
      [] OTHER -> "Other"

\* T of LinkedList.ts
dfaT(s, c) ==
    CASE s = "Start" /\ c = "Whitespace" -> "Whitespace"
      [] s = "Start" /\ c = "Hash"       -> "Hex"
      [] s = "Start" /\ c = "Digit"      -> "Integer"
      [] s = "Start" /\ c = "Dot"        -> "Fraction"
      [] s = "Start" /\ c = "Plus"       -> "Sign"
      [] s = "Start" /\ c = "Minus"      -> "Sign"
      [] s = "Start" /\ c = "Letter"     -> "Ident"
      [] s = "Whitespace" /\ c = "Whitespace" -> "Whitespace"
      [] s = "Sign" /\ c = "Digit"       -> "Integer"
      [] s = "Sign" /\ c = "Dot"         -> "Fraction"
      [] s = "Integer" /\ c = "Digit"    -> "Integer"
      [] s = "Integer" /\ c = "Dot"      -> "Fraction"
      [] s = "Integer" /\ c = "Letter"   -> "Unit"
      [] s = "Integer" /\ c = "Percent"  -> "Unit"
      [] s = "Fraction" /\ c = "Digit"   -> "Fraction"
      [] s = "Fraction" /\ c = "Letter"  -> "Unit"
      [] s = "Fraction" /\ c = "Percent" -> "Unit"
      [] s = "Unit" /\ c = "Letter"      -> "Unit"
      [] s = "Ident" /\ c = "Letter"     -> "Ident"
      [] s = "Ident" /\ c = "Digit"      -> "Ident"
      [] s = "Hex" /\ c = "Digit"        -> "Hex"
      [] s = "Hex" /\ c = "Letter"       -> "Hex"
      [] OTHER -> Undefined

\* the result of a lookup that finds no TokenType (undefined in the source)
NoTokenType == -1

\* Accepting of LinkedList.ts
dfaAccepting(s) ==
    CASE s = "Whitespace" -> WHITESPACE
      [] s = "Integer"    -> NUMBER
      [] s = "Fraction"   -> NUMBER
      [] s = "Unit"       -> DIMENSION
      [] s = "Ident"      -> IDENT
      [] s = "Hex"        -> HEXCOLOR
      [] OTHER -> NoTokenType

\* !type for a looked-up TokenType: undefined and 0 are falsy
falsy(type) == type = NoTokenType \/ type = 0

\* the map of singleCharToken
singleCharMap(ch) ==
    CASE ch = "(" -> LPAREN
      [] ch = ")" -> RPAREN
      [] ch = "," -> COMMA
      [] ch = "/" -> SLASH
      [] OTHER -> NoTokenType

\* value.endsWith('%')
endsWithPercent(val) == Len(val) >= 1 /\ val[Len(val)] = "%"

\* the accepted token without the IDENT vs FUNCTION test
acceptedToken_noFunction(type, val, start, end, cur) ==
    IF endsWithPercent(val)
    THEN [type |-> PERCENT, value |-> SubSeq(val, 1, Len(val) - 1),
          start |-> start, end |-> end]
    ELSE [type |-> type, value |-> val, start |-> start, end |-> end]

\* the token tokenize() pushes for an accepted run: PERCENT, FUNCTION or `type`
acceptedToken(type, val, start, end, cur) ==
    IF endsWithPercent(val)
    THEN [type |-> PERCENT, value |-> SubSeq(val, 1, Len(val) - 1),
          start |-> start, end |-> end]
    ELSE IF type = IDENT /\ cur = "("
    THEN [type |-> FUNCTION, value |-> val, start |-> start, end |-> end]
    ELSE [type |-> type, value |-> val, start |-> start, end |-> end]

\* the caller calls tokenize(): a fresh local token list
DFATokenizer_tokenize ==
    /\ pc = "idle"
    /\ calls < MaxCalls
    /\ calls' = calls + 1
    /\ tokens' = <<>>
    /\ error' = NoError
    /\ thrown' = FALSE
    /\ pc' = "loop"
    /\ iters' = 0
    /\ UNCHANGED <<source, index, line, column, state, startPosition, quoteChar,
                   value, console>>

\* while (!isEof()): record startPos, state = Start
DFATokenizer_loop ==
    /\ pc = "loop"
    /\ ~isEof(source, position)
    /\ startPosition' = position
    /\ state' = "Start"
    /\ pc' = "dfa"
    /\ iters' = iters + 1
    /\ UNCHANGED <<source, index, line, column, tokens, quoteChar, value, error,
                   console, thrown, calls>>

\* one turn of the inner while (true)
DFATokenizer_step ==
    /\ pc = "dfa"
    /\ LET ch   == current(source, position)
           cls  == dfaClassify(ch)
           next == dfaT(state, cls)
       IN  IF next = Undefined
           THEN pc' = "emit" /\ UNCHANGED <<state, index, line, column>>
           ELSE /\ state' = next
                /\ SetPos(consume(source, position))
                /\ pc' = "dfa"
    /\ UNCHANGED <<source, tokens, startPosition, quoteChar, value, error,
                   console, thrown, calls, iters>>

\* after the inner loop: single-character token, throw, or accepted token
DFATokenizer_emit ==
    /\ pc = "emit"
    /\ LET start == position
           ch    == consumed(source, position)
           after == consume(source, position)
           type  == dfaAccepting(state)
           val   == slice(source, startPosition.index, index)
       IN  IF state = "Start"
           THEN /\ SetPos(after)
                /\ IF falsy(singleCharMap(ch))
                   THEN /\ error' = DiagnosticError(<<"Unexpected character '", ch, "'">>,
                                        source, start, after,
                                        <<"Only valid CSS color tokens are allowed here">>)
                        /\ thrown' = TRUE
                        /\ pc' = "idle"
                        /\ UNCHANGED tokens
                   ELSE /\ tokens' = Append(tokens, [type |-> singleCharMap(ch),
                                        value |-> Str(ch), start |-> start, end |-> after])
                        /\ pc' = "loop"
                        /\ UNCHANGED <<error, thrown>>
           ELSE IF falsy(type)
           THEN /\ error' = DiagnosticError("Invalid token", source, startPosition,
                                position,
                                <<"Check CSS color syntax near this location">>)
                /\ thrown' = TRUE
                /\ pc' = "idle"
                /\ UNCHANGED <<index, line, column, tokens>>
           ELSE /\ tokens' = Append(tokens, acceptedToken(type, val, startPosition,
                                position, current(source, position)))
                /\ pc' = "loop"
                /\ UNCHANGED <<index, line, column, error, thrown>>
    /\ UNCHANGED <<source, state, startPosition, quoteChar, value, console,
                   calls, iters>>

\* the loop is over: push EOF and return tokens
DFATokenizer_return ==
    /\ pc = "loop"
    /\ isEof(source, position)
    /\ tokens' = Append(tokens, [type |-> EOF, value |-> <<>>,
                                 start |-> position, end |-> position])
    /\ pc' = "idle"
    /\ UNCHANGED <<source, index, line, column, state, startPosition, quoteChar,
                   value, error, console, thrown, calls, iters>>

\* new DFATokenizer(source)
InitDFA ==
    /\ source \in SeqsUpTo(DfaAlphabet, MaxDfaLen)
    /\ index = 0
    /\ line = 1
    /\ column = 1
    /\ tokens = <<>>
    /\ pc = "idle"
    /\ state = "Start"
    /\ startPosition = Pos(0, 1, 1)
    /\ quoteChar = ""
    /\ value = <<>>
    /\ error = NoError
    /\ console = <<>>
    /\ thrown = FALSE
    /\ calls = 0
    /\ iters = 0
    /\ csIdle

NextDFA ==
    \/ DFATokenizer_tokenize /\ UNCHANGED <<csVars, peer, tsVars, llVars>>
    \/ DFATokenizer_loop /\ UNCHANGED <<csVars, peer, tsVars, llVars>>
    \/ DFATokenizer_step /\ UNCHANGED <<csVars, peer, tsVars, llVars>>
    \/ DFATokenizer_emit /\ UNCHANGED <<csVars, peer, tsVars, llVars>>
    \/ DFATokenizer_return /\ UNCHANGED <<csVars, peer, tsVars, llVars>>

SpecDFA == InitDFA /\ [][NextDFA]_vars

(***************************************************************************)
(* NewLexer.ts: Tokenizer.tokenize.  SpecNL runs one call of tokenize() on *)
(* a new instance.  Only `index` moves (line and column stay 1); `tokens`  *)
(* is the local list, which the call copies into the empty this.tokens     *)
(* before it returns; a token is { type, value }.  The console.log lines   *)
(* and displayError (debug output) are left out.                           *)
(***************************************************************************)
MaxNlLen == 4

NlAlphabet == {"a", "1", " ", "#", "(", "+", ".", "@"}

\* [a-f0-9] among the characters of NlAlphabet
NlHexDigits == {"a", "1"}

\* classify of NewLexer.ts: the first CharSpec entry whose test accepts ch.
\* No single character passes hexRegex; the EOF test /$(?![\r\n])/ finds the
\* end of every string, so it accepts whatever no earlier entry accepted.
nlClassify(ch) ==
    CASE ch \in {" ", "\n", "\t", "\r"} -> "Whitespace"
      [] ch \in {"a", "z"} -> "Letter"
      [] ch = "1" -> "Digit"
      [] ch \in {"\"", "'"} -> "Quote"
      [] ch = "%" -> "Percent"
      [] ch = "." -> "Dot"
      [] ch = "(" -> "LParen"
      [] ch = ")" -> "RParen"
      [] ch = "," -> "Comma"
      [] ch = "/" -> "Slash"
      [] ch = "#" -> "Hash"
      [] ch \in {"!", "+", "-", "\\", "*"} -> "Operator"
      [] OTHER -> "EOF"

\* Transition of NewLexer.ts
nlTransition(s, c) ==
    CASE s = "<start>" /\ c = "Whitespace" -> "<whitespace>"
      [] s = "<start>" /\ c = "Hash"       -> "<hexvalue>"
      [] s = "<start>" /\ c = "Letter"     -> "<identifier>"
      [] s = "<start>" /\ c = "Digit"      -> "<integer>"
      [] s = "<start>" /\ c = "LParen"     -> "<delimiter>"
      [] s = "<start>" /\ c = "RParen"     -> "<delimiter>"
      [] s = "<start>" /\ c = "Comma"      -> "<delimiter>"
      [] s = "<start>" /\ c = "Operator"   -> "<operator>"
      [] s = "<start>" /\ c = "Other"      -> "<error>"
      [] s = "<whitespace>" /\ c = "Whitespace" -> "<whitespace>"
      [] s = "<hexvalue>" /\ c = "Hex"     -> "<hexvalue>"
      [] s = "<hexvalue>" /\ c = "Letter"  -> "<hexvalue>"
      [] s = "<hexvalue>" /\ c = "Digit"   -> "<hexvalue>"
      [] s = "<identifier>" /\ c = "Letter" -> "<identifier>"
      [] s = "<integer>" /\ c = "Digit"    -> "<integer>"
      [] s = "<integer>" /\ c = "Dot"      -> "<float>"
      [] s = "<float>" /\ c = "Digit"      -> "<float>"
      [] s = "<delimiter>" /\ c = "LParen" -> "<delimiter>"
      [] s = "<delimiter>" /\ c = "RParen" -> "<delimiter>"
      [] s = "<delimiter>" /\ c = "Comma"  -> "<delimiter>"
      [] s = "<operator>" /\ c = "Operator" -> "<operator>"
      [] s = "<error>" /\ c = "Other"      -> "<error>"
      [] OTHER -> Undefined

\* Accepting of NewLexer.ts
nlAccepting(s) ==
    CASE s = "<whitespace>" -> "WHITESPACE"
      [] s = "<hexvalue>"   -> "HEXVALUE"
      [] s = "<identifier>" -> "IDENTIFIER"
      [] s = "<integer>"    -> "NUMBER"
      [] s = "<float>"      -> "NUMBER"
      [] s = "<delimiter>"  -> "DELIMITER"
      [] s = "<operator>"   -> "OPERATOR"
      [] s = "<error>"      -> "<error>"
      [] OTHER -> Undefined

\* value.match(hexRegex): an optional '#', then 3, 4, 6 or 8 hex digits
hexRegexMatches(val) ==
    LET digits == IF Len(val) >= 1 /\ val[1] = "#"
                  THEN SubSeq(val, 2, Len(val)) ELSE val
    IN  /\ Len(digits) \in {3, 4, 6, 8}
        /\ \A k \in 1..Len(digits) : digits[k] \in NlHexDigits

\* the caller calls tokenize()
NL_tokenize ==
    /\ pc = "new"
    /\ tokens' = <<>>
    /\ calls' = calls + 1
    /\ pc' = "loop"
    /\ UNCHANGED <<source, index, line, column, state, startPosition, quoteChar,
                   value, error, console, thrown, iters>>

\* while (!isEOF()): state = Start, startPos = position()
NL_loop ==
    /\ pc = "loop"
    /\ ~isEof(source, position)
    /\ state' = "<start>"
    /\ startPosition' = position
    /\ pc' = "dfa"
    /\ UNCHANGED <<source, index, line, column, tokens, quoteChar, value, error,
                   console, thrown, calls, iters>>

\* one turn of the inner while (true)
NL_step ==
    /\ pc = "dfa"
    /\ LET nextState == nlTransition(state, nlClassify(charAt(source, index)))
       IN  IF isEof(source, position) \/ nextState = Undefined
           THEN pc' = "emit" /\ UNCHANGED <<state, index>>
           ELSE state' = nextState /\ index' = index + 1 /\ pc' = "dfa"
    /\ UNCHANGED <<source, line, column, tokens, startPosition, quoteChar, value,
                   error, console, thrown, calls, iters>>

\* the switch on the state the loop halted in
NL_emit ==
    /\ pc = "emit"
    /\ LET val == slice(source, startPosition.index, index)
       IN  CASE state \in {"<operator>", "<delimiter>", "<identifier>", "<integer>",
                           "<float>"}
                  -> tokens' = Append(tokens, [type |-> nlAccepting(state),
                                               value |-> val])
             [] state = "<hexvalue>" /\ hexRegexMatches(val)
                  -> tokens' = Append(tokens, [type |-> nlAccepting(state),
                                               value |-> val])
             [] OTHER -> UNCHANGED tokens
    /\ pc' = "loop"
    /\ UNCHANGED <<source, index, line, column, state, startPosition, quoteChar,
                   value, error, console, thrown, calls, iters>>

\* the loop is over: push the '<end>' token, return the list
NL_return ==
    /\ pc = "loop"
    /\ isEof(source, position)
    /\ tokens' = Append(tokens, [type |-> "<end>", value |-> <<"<end>">>])
    /\ pc' = "idle"
    /\ UNCHANGED <<source, index, line, column, state, startPosition, quoteChar,
                   value, error, console, thrown, calls, iters>>

\* new Tokenizer(input)
InitNL ==
    /\ source \in SeqsUpTo(NlAlphabet, MaxNlLen)
    /\ index = 0
    /\ line = 1
    /\ column = 1
    /\ tokens = <<>>
    /\ pc = "new"
    /\ state = "<start>"
    /\ startPosition = Pos(0, 1, 1)
    /\ quoteChar = ""
    /\ value = <<>>
    /\ error = NoError
    /\ console = <<>>
    /\ thrown = FALSE
    /\ calls = 0
    /\ iters = 0
    /\ csIdle

NextNL ==
    \/ NL_tokenize /\ UNCHANGED <<csVars, peer, tsVars, llVars>>
    \/ NL_loop /\ UNCHANGED <<csVars, peer, tsVars, llVars>>
    \/ NL_step /\ UNCHANGED <<csVars, peer, tsVars, llVars>>
    \/ NL_emit /\ UNCHANGED <<csVars, peer, tsVars, llVars>>
    \/ NL_return /\ UNCHANGED <<csVars, peer, tsVars, llVars>>

\* a running call keeps running: tokenize() is sequential code
SpecNL == InitNL /\ [][NextNL]_vars /\ WF_vars(NextNL)

(***************************************************************************)
(* SpecTS: one CharStream of TokenStream.ts under peek / consume / rewind  *)
(* / reset.  The input is short, so that split() packs it into one         *)
(* element, or the padding of maxLength characters behind a short prefix,  *)
(* so that the stream has one element per character.                       *)
(***************************************************************************)
TsInputs ==
    SeqsUpTo(TsAlphabet, MaxTsLen) \cup
    { w \o repeat("a", maxLength) : w \in SeqsUpTo(TsAlphabet, MaxTsLen) }

\* new CharStream(input)
InitTS ==
    /\ \E input \in TsInputs : charStream = newCharStream(input)
    /\ heap = <<>>
    /\ live = 0
    /\ issued = <<>>
    /\ tsLast = [op |-> "new", ret |-> 0,
                 before |-> [position |-> Pos(0, 1, 1), history |-> <<>>]]
    /\ tsOps = 0
    /\ tokIdle
    /\ peer = newStream(<<>>)
    /\ csSource = <<>>
    /\ character = initCharacter(<<>>)
    /\ cursor = 0
    /\ history = <<>>
    /\ csOp = "new"
    /\ csRet = [done |-> FALSE, value |-> initCharacter(<<>>)]
    /\ csOps = 0
    /\ llIdle

NextTS ==
    \/ TsPeek /\ UNCHANGED <<tokVars, csVars, peer, llVars>>
    \/ TsConsume /\ UNCHANGED <<tokVars, csVars, peer, llVars>>
    \/ TsRewind /\ UNCHANGED <<tokVars, csVars, peer, llVars>>
    \/ TsReset /\ UNCHANGED <<tokVars, csVars, peer, llVars>>

SpecTS == InitTS /\ [][NextTS]_vars

(***************************************************************************)
(* SpecLL: one LinkedList of LinkedList.ts, handed over after some         *)
(* append() calls, under append / prepend / insertAt / removeAt /          *)
(* removeHead / removeTail.                                                *)
(***************************************************************************)
\* new LinkedList(), then append() for each element of some data
InitLL ==
    /\ \E data \in SeqsUpTo(LlData, MaxLlLen) :
          /\ nodes = listOf(data).nodes
          /\ head = listOf(data).head
          /\ tail = listOf(data).tail
          /\ size = listOf(data).size
    /\ llLast = [op |-> "new", data |-> Null, position |-> Null, thrown |-> FALSE,
                 before |-> [size |-> 0, data |-> <<>>]]
    /\ llOps = 0
    /\ tokIdle
    /\ peer = newStream(<<>>)
    /\ csSource = <<>>
    /\ character = initCharacter(<<>>)
    /\ cursor = 0
    /\ history = <<>>
    /\ csOp = "new"
    /\ csRet = [done |-> FALSE, value |-> initCharacter(<<>>)]
    /\ csOps = 0
    /\ tsIdle

NextLL ==
    \/ LlAppend /\ UNCHANGED <<tokVars, csVars, peer, tsVars>>
    \/ LlPrepend /\ UNCHANGED <<tokVars, csVars, peer, tsVars>>
    \/ LlInsertAt /\ UNCHANGED <<tokVars, csVars, peer, tsVars>>
    \/ LlRemoveAt /\ UNCHANGED <<tokVars, csVars, peer, tsVars>>
    \/ LlRemoveHead /\ UNCHANGED <<tokVars, csVars, peer, tsVars>>
    \/ LlRemoveTail /\ UNCHANGED <<tokVars, csVars, peer, tsVars>>

SpecLL == InitLL /\ [][NextLL]_vars

(***************************************************************************)
(* Vocabulary of the properties                                            *)
(***************************************************************************)
\* the constructor has returned and the caller has made no further call
Constructed == pc = "idle" /\ calls = 0

\* some tokenize() call of this instance created a DiagnosticError
DiagnosticRaised == error # NoError

Last(s) == s[Len(s)]

AllIn(s, S) == \A k \in 1..Len(s) : s[k] \in S

\* digit+ | digit+ '.' digit+ | '.' digit+
IsNumberText(s) ==
    \/ Len(s) >= 1 /\ AllIn(s, Digits)
    \/ \E d \in 1..Len(s) :
          /\ s[d] = "."
          /\ d < Len(s)
          /\ AllIn(SubSeq(s, 1, d - 1), Digits)
          /\ AllIn(SubSeq(s, d + 1, Len(s)), Digits)

\* number text, e or E, optional sign, digit+
IsExponentText(s) ==
    \E k \in 1..Len(s) :
        /\ s[k] \in {"e", "E"}
        /\ IsNumberText(SubSeq(s, 1, k - 1))
        /\ LET rest == SubSeq(s, k + 1, Len(s))
           IN  \/ Len(rest) >= 1 /\ AllIn(rest, Digits)
               \/ /\ Len(rest) >= 2
                  /\ rest[1] \in {"+", "-"}
                  /\ AllIn(SubSeq(rest, 2, Len(rest)), Digits)

\* the source text of the tokens k..Len(toks), slice after slice
RECURSIVE ConcatSlices(_, _, _)
ConcatSlices(src, toks, k) ==
    IF k > Len(toks) THEN <<>>
    ELSE slice(src, toks[k].start.index, toks[k].end.index)
         \o ConcatSlices(src, toks, k + 1)

(***************************************************************************)
(* C1: for every input that raises no diagnostic, the empty string         *)
(* included, the tokens of a constructed Tokenizer are not empty and the   *)
(* last one is a zero-width EOF token.                                     *)
(***************************************************************************)
C1_EndsWithEOF ==
    (Constructed /\ ~DiagnosticRaised) =>
        /\ tokens # <<>>
        /\ Last(tokens).type = "EOF"
        /\ Last(tokens).start = Last(tokens).end

(***************************************************************************)
(* C2: a lexical error met while tokenizing reaches the caller as a        *)
(* DiagnosticError; tokenize() never swallows it.                          *)
(***************************************************************************)
C2_DiagnosticReachesCaller ==
    (pc = "idle" /\ DiagnosticRaised) => thrown

(***************************************************************************)
(* C3: when no diagnostic is raised, the slices of the source taken by the *)
(* tokens, in order, give back the source: the first token starts at 0,    *)
(* each token starts at the index where the one before it ended.           *)
(***************************************************************************)
C3_LosslessCoverage ==
    (pc = "idle" /\ ~DiagnosticRaised) =>
        /\ ConcatSlices(source, tokens, 1) = source
        /\ tokens # <<>> => tokens[1].start.index = 0
        /\ \A k \in 2..Len(tokens) : tokens[k].start.index = tokens[k - 1].end.index

C3_Witness ==
    /\ pc = "idle"
    /\ ~DiagnosticRaised
    /\ Len(source) = 3
    /\ Len(tokens) = 3
    /\ tokens[1].type = "STRING"
    /\ tokens[2].type = "NUMBER"

(***************************************************************************)
(* C4: when a DiagnosticError is raised, no token made before the error    *)
(* can be seen by the caller in `tokens`.                                  *)
(***************************************************************************)
C4_NoPartialTokens ==
    (Constructed /\ DiagnosticRaised) => tokens = <<>>

(***************************************************************************)
(* C5: once a CharacterStream has reached the end of its input, every      *)
(* further consume() returns the same EOF character and leaves the         *)
(* current character, the cursor and the history as they were.             *)
(***************************************************************************)
C5_IdempotentEOF ==
    [][(cursor >= Len(csSource) /\ csOp' = "consume" /\ csOps' = csOps + 1) =>
          /\ csRet'.value = character
          /\ csRet'.value.type = "EOF"
          /\ character' = character
          /\ cursor' = cursor
          /\ history' = history]_vars

C5_Witness ==
    /\ Len(csSource) = 2
    /\ cursor = 2
    /\ csOp = "consume"
    /\ csRet.value.type = "EOF"
    /\ csOps >= 4
    /\ Len(history) = 2

(***************************************************************************)
(* C6: tokenize() terminates.  Every turn of the outer loop ends with the  *)
(* cursor past the index it started at, every turn of the two inner loops  *)
(* that stays in the loop moves the cursor forward, and a call starts at   *)
(* most Len(source) turns of the outer loop.                               *)
(***************************************************************************)
C6_EveryIterationConsumes ==
    [][/\ (pc \in {"dfa", "emit", "str"} /\ pc' \in {"loop", "catch"}) =>
              index' > startPosition.index
       /\ (pc = "dfa" /\ pc' = "dfa") => index' > index
       /\ (pc = "str" /\ pc' = "str") => index' > index
       /\ index' <= Len(source) + 1
       /\ iters' <= Len(source)]_vars

C6_Witness ==
    /\ pc = "idle"
    /\ Len(source) = 3
    /\ iters = 3
    /\ Last(tokens).type = "EOF"

(***************************************************************************)
(* C7: a digit run with optional fraction, then e or E, an optional sign   *)
(* and at least one digit is emitted as one NUMBER token whose text is the *)
(* whole run.                                                              *)
(***************************************************************************)
C7_ExponentIsOneNumber ==
    (Constructed /\ IsExponentText(source)) =>
        /\ Len(tokens) = 2
        /\ tokens[1].type = "NUMBER"
        /\ tokens[1].value = source
        /\ tokens[2].type = "EOF"

(***************************************************************************)
(* C8: when the e or E after a digit/fraction run is not followed by a     *)
(* digit or by a sign and a digit, the input is tokenized as a DIMENSION   *)
(* and no diagnostic is raised.                                            *)
(***************************************************************************)
C8_LoneExponentIsDimension ==
    \A k \in 1..Len(source) :
        (/\ Constructed
         /\ source[k] \in {"e", "E"}
         /\ IsNumberText(SubSeq(source, 1, k - 1))
         /\ charAt(source, k) \notin Digits
         /\ ~(charAt(source, k) \in {"+", "-"} /\ charAt(source, k + 1) \in Digits))
        => /\ ~DiagnosticRaised
           /\ tokens # <<>>
           /\ tokens[1].type = "DIMENSION"

(***************************************************************************)
(* C9: a DIMENSION token spans the numeric run and the maximal run of      *)
(* letters after it and nothing else: the first character that is not a    *)
(* letter is outside the token and starts the next one.                    *)
(***************************************************************************)
\* length of the run of letters that starts at 0-based index i
RECURSIVE LetterRunLen(_, _)
LetterRunLen(src, i) ==
    IF charAt(src, i) \in Letters THEN 1 + LetterRunLen(src, i + 1) ELSE 0

\* length of the longest run over digits and at most one '.' that starts at
\* 0-based index i
RECURSIVE NumRunLen(_, _, _)
NumRunLen(src, i, dotSeen) ==
    IF charAt(src, i) \in Digits THEN 1 + NumRunLen(src, i + 1, dotSeen)
    ELSE IF charAt(src, i) = "." /\ ~dotSeen THEN 1 + NumRunLen(src, i + 1, TRUE)
    ELSE 0

C9_DimensionStopsAtNonLetter ==
    \A k \in 1..Len(tokens) :
        LET t == tokens[k]
            n == NumRunLen(source, t.start.index, FALSE)
            m == LetterRunLen(source, t.start.index + n)
        IN  /\ (IsNumberText(slice(source, t.start.index, t.start.index + n)) /\ m >= 1)
                  => t.type = "DIMENSION"
            /\ t.type = "DIMENSION" =>
                  /\ n >= 1
                  /\ m >= 1
                  /\ Min(t.end.index, Len(source)) = t.start.index + n + m

(***************************************************************************)
(* C10: a digit/fraction run followed at once by '%' is one PERCENT token: *)
(* its text is the run without the '%', its span includes the '%'.         *)
(***************************************************************************)
\* a digit/fraction run starts at i and '%' follows it
PercentAt(src, i) ==
    LET n == NumRunLen(src, i, FALSE)
    IN  /\ IsNumberText(slice(src, i, i + n))
        /\ charAt(src, i + n) = "%"

C10_PercentToken ==
    \A k \in 1..Len(tokens) :
        LET t == tokens[k]
            n == NumRunLen(source, t.start.index, FALSE)
        IN  /\ PercentAt(source, t.start.index) =>
                  /\ t.type = "PERCENT"
                  /\ t.value = slice(source, t.start.index, t.start.index + n)
                  /\ t.end.index = t.start.index + n + 1
            /\ t.type = "PERCENT" =>
                  /\ charAt(source, t.end.index - 1) = "%"
                  /\ t.value = slice(source, t.start.index, t.end.index - 1)

C10_Witness ==
    /\ pc = "idle"
    /\ Len(tokens) = 2
    /\ tokens[1].type = "PERCENT"
    /\ tokens[1].value = <<"1", "1">>
    /\ tokens[1].start.index = 0
    /\ tokens[1].end.index = 3

(***************************************************************************)
(* C11: DFATokenizer emits an identifier run that is followed at once by   *)
(* '(' as a FUNCTION token without the '(', and the '(' as the next token, *)
(* an LPAREN; an identifier run followed by anything else, or by the end   *)
(* of input, is emitted as an IDENT token.                                 *)
(***************************************************************************)
\* length of the run of letters and digits that starts at 0-based index i
RECURSIVE IdentRunLen(_, _)
IdentRunLen(src, i) ==
    IF dfaClassify(charAt(src, i)) \in {"Letter", "Digit"}
    THEN 1 + IdentRunLen(src, i + 1) ELSE 0

HexDigits == Digits \cup {"e"}

ValidHexLengths == {3, 4, 6, 8}

\* length of the run of hex digits that starts at 0-based index i
RECURSIVE HexRunLen(_, _)
HexRunLen(src, i) ==
    IF charAt(src, i) \in HexDigits THEN 1 + HexRunLen(src, i + 1) ELSE 0

\* a '#' at index i followed by a hex run of an invalid, non-zero length
BadHexAt(src, i) ==
    /\ charAt(src, i) = "#"
    /\ HexRunLen(src, i + 1) >= 1
    /\ HexRunLen(src, i + 1) \notin ValidHexLengths

C12_HexLengthValidated ==
    Constructed =>
        /\ \A k \in 1..Len(tokens) :
              tokens[k].type = "HEXVALUE" => ~BadHexAt(source, tokens[k].start.index)
        /\ BadHexAt(source, 0) => (DiagnosticRaised /\ error.start.index = 0)

(***************************************************************************)
(* C13: inside a quoted string a backslash escapes the next character, so  *)
(* a quote that is escaped does not close the string: the closing quote of *)
(* every STRING token is not escaped, and the token's value is the text    *)
(* between its quotes, backslashes included.                               *)
(***************************************************************************)
\* number of backslashes that end just before 0-based index i, not below lo
RECURSIVE BackslashRun(_, _, _)
BackslashRun(src, i, lo) ==
    IF i - 1 >= lo /\ charAt(src, i - 1) = "\\"
    THEN 1 + BackslashRun(src, i - 1, lo) ELSE 0

\* the character at index i of a string opened at index open is escaped
EscapedAt(src, open, i) == BackslashRun(src, i, open + 1) % 2 = 1

C13_EscapedQuoteKeepsString ==
    \A k \in 1..Len(tokens) :
        LET t == tokens[k]
        IN  t.type = "STRING" =>
              /\ ~EscapedAt(source, t.start.index, t.end.index - 1)
              /\ t.value = slice(source, t.start.index + 1, t.end.index - 1)

(***************************************************************************)
(* C14: when handleStringLiteral reaches the end of input without meeting  *)
(* a quote equal to the opening quote, it creates a DiagnosticError        *)
(* "Unterminated string literal" whose start is the position of the        *)
(* opening quote, whose end is the end-of-input position and whose hint    *)
(* contains the opening quote character; a quote of the other kind inside  *)
(* the string does not close it.                                           *)
(***************************************************************************)
\* indices below i that hold a line feed
NewlinesBefore(src, i) == {j \in 0..(i - 1) : charAt(src, j) = "\n"}

\* 1 + the number of line feeds before index i
LineAt(src, i) == 1 + Cardinality(NewlinesBefore(src, i))

\* distance of index i from the last line feed before it, i + 1 without one
ColumnAt(src, i) ==
    LET nl == NewlinesBefore(src, i)
    IN  IF nl = {} THEN i + 1
        ELSE i - (CHOOSE j \in nl : \A m \in nl : m <= j)

\* the position of index i of src as the claims count lines and columns
PosAt(src, i) == Pos(i, LineAt(src, i), ColumnAt(src, i))

Unterminated == DiagnosticRaised /\ error.message = "Unterminated string literal"

\* the string opened at index i by quote q is never closed
NeverClosed(src, i, q) ==
    /\ charAt(src, i) = q
    /\ q \in Quotes
    /\ \A j \in (i + 1)..(Len(src) - 1) : charAt(src, j) # q

C14_UnterminatedStringDiagnostic ==
    /\ Unterminated =>
          LET q == charAt(source, error.start.index)
          IN  /\ NeverClosed(source, error.start.index, q)
              /\ error.start = PosAt(source, error.start.index)
              /\ error.end = PosAt(source, Len(source))
              /\ error.source = source
              /\ \E h \in 1..Len(error.hint) : error.hint[h] = q
    /\ \A q \in Quotes :
          (pc = "idle" /\ calls = 0 /\ NeverClosed(source, 0, q)) =>
              (Unterminated /\ error.start = Pos(0, 1, 1))

C14_Witness ==
    /\ pc = "idle"
    /\ source = <<"'", "\"", "\n">>
    /\ Unterminated
    /\ error.end = Pos(3, 2, 1)

(***************************************************************************)
(* C15: when the maximal-munch loop consumes no character and the current  *)
(* character is none of ( ) , / + - *, tokenizing raises a diagnostic at   *)
(* that character and no token is emitted for it.                          *)
(***************************************************************************)
\* the DFA cannot leave Start on ch and ch is not in the delimiter map
Unmapped(ch) ==
    /\ ch # ""
    /\ ch \notin Quotes
    /\ T("Start", classify(ch)) = Undefined
    /\ specificTokens(ch) = Undefined

C15_UnexpectedCharacter ==
    /\ \A k \in 1..Len(tokens) : ~Unmapped(charAt(source, tokens[k].start.index))
    /\ (Constructed /\ Unmapped(charAt(source, 0))) =>
          (DiagnosticRaised /\ error.start.index = 0)

(***************************************************************************)
(* C16: each of the characters ( ) , / + - * at which a token starts is    *)
(* emitted as exactly one token of one character, of kind LPAREN, RPAREN,  *)
(* COMMA, SLASH, PLUS, MINUS, STAR respectively; neighbours are never      *)
(* merged into it.                                                         *)
(***************************************************************************)
SingleCharKinds ==
    [x \in {"(", ")", ",", "/", "+", "-", "*"} |->
        CASE x = "(" -> "LPAREN"
          [] x = ")" -> "RPAREN"
          [] x = "," -> "COMMA"
          [] x = "/" -> "SLASH"
          [] x = "+" -> "PLUS"
          [] x = "-" -> "MINUS"
          [] x = "*" -> "STAR"]

\* index i lies inside a token that started before it
InsideEarlierToken(i) ==
    \E k \in 1..Len(tokens) : tokens[k].start.index < i /\ i < tokens[k].end.index

C16_SingleCharTokens ==
    /\ \A k \in 1..Len(tokens) :
          LET t  == tokens[k]
              ch == charAt(source, t.start.index)
          IN  ch \in DOMAIN SingleCharKinds =>
                /\ t.type = SingleCharKinds[ch]
                /\ t.value = <<ch>>
                /\ t.end.index = t.start.index + 1
    /\ (pc = "idle" /\ ~DiagnosticRaised) =>
          \A i \in 0..(Len(source) - 1) :
              (charAt(source, i) \in DOMAIN SingleCharKinds /\ ~InsideEarlierToken(i)) =>
                  Cardinality({k \in 1..Len(tokens) : tokens[k].start.index = i}) = 1

C16_Witness ==
    /\ pc = "idle"
    /\ source = <<"+", "-", "*">>
    /\ Len(tokens) = 4
    /\ tokens[1].type = "PLUS"
    /\ tokens[2].type = "MINUS"
    /\ tokens[3].type = "STAR"
    /\ tokens[4].type = "EOF"

(***************************************************************************)
(* C17: every emitted token starts at line 1 + the number of line feeds    *)
(* before its start index, and at the column that is its start index       *)
(* minus the index of the last line feed before it (start index + 1 when   *)
(* there is none).                                                         *)
(***************************************************************************)
C17_TokenStartPosition ==
    \A k \in 1..Len(tokens) :
        tokens[k].start = PosAt(source, tokens[k].start.index)

C17_Witness ==
    /\ pc = "idle"
    /\ source = <<"e", "\n", "p">>
    /\ Len(tokens) = 4
    /\ tokens[3].start = Pos(2, 2, 1)
    /\ tokens[3].type = "IDENTIFIER"

(***************************************************************************)
(* C18: once tokenize() has run on an instance, any number of times, and   *)
(* no diagnostic was raised, the token list holds exactly one EOF token    *)
(* and that token is its last element.                                     *)
(***************************************************************************)
\* at least one call of tokenize() has returned and none is running
Tokenized == pc = "idle" /\ (source # <<>> \/ calls >= 1)

EofCount == Cardinality({k \in 1..Len(tokens) : tokens[k].type = "EOF"})

C18_ExactlyOneEOF ==
    (Tokenized /\ ~DiagnosticRaised) =>
        /\ EofCount = 1
        /\ Last(tokens).type = "EOF"

(***************************************************************************)
(* C19: CharacterStream reports each non-EOF character at index i with     *)
(* line = 1 + the number of line feeds before i and column = i minus the   *)
(* index of the last line feed before i (i + 1 when there is none): a      *)
(* newline character is on the line it ends and the character after it     *)
(* has column 1.                                                           *)
(***************************************************************************)
\* ch is reported at the line and column counted from the source
ReportedAt(src, ch) ==
    ch.type # "EOF" =>
        /\ ch.value = charAt(src, ch.index)
        /\ ch.line = LineAt(src, ch.index)
        /\ ch.column = ColumnAt(src, ch.index)

C19_StreamLineColumn ==
    /\ ReportedAt(csSource, character)
    /\ \A h \in 1..Len(history) : ReportedAt(csSource, history[h])

(***************************************************************************)
(* C20: reset() puts the stream back into its initial state (current       *)
(* character = the first source character at index 0, line 1, column 1,    *)
(* empty history, cursor 0) and returns the stream; consuming the whole    *)
(* stream from there gives the same characters, values and positions, as   *)
(* the first full consumption, and whenever the stream has been consumed   *)
(* to its end the history is that same sequence.                           *)
(***************************************************************************)
\* the characters consume() returns from a stream state until it is at EOF
RECURSIVE Drain(_, _, _, _)
Drain(src, ch, cur, hist) ==
    IF ch.type = "EOF" THEN <<>>
    ELSE LET r == consumeCs(src, ch, cur, hist)
         IN  <<r.ret>> \o Drain(src, r.character, r.cursor, r.history)

\* the first full consumption of a new stream over src
FirstRun(src) ==
    Drain(src,
          IF src = <<>>
          THEN [index |-> 0, line |-> 1, column |-> 1, value |-> "", type |-> "EOF"]
          ELSE [index |-> 0, line |-> 1, column |-> 1, value |-> src[1],
                type |-> csClassify(src[1])],
          0, <<>>)

C20_ResetRestoresStart ==
    [][/\ (csOp' = "reset" /\ csOps' = csOps + 1) =>
            /\ cursor' = 0
            /\ history' = <<>>
            /\ character'.index = 0
            /\ character'.line = 1
            /\ character'.column = 1
            /\ character'.value = charAt(csSource, 0)
            /\ csRet'.value = character'
            /\ Drain(csSource, character', cursor', history') = FirstRun(csSource)
       /\ character'.type = "EOF" => history' = FirstRun(csSource)]_vars

C20_Witness ==
    /\ csSource = <<"a", "\n", "1">>
    /\ csOp = "reset"
    /\ csOps = 4
    /\ cursor = 0
    /\ history = <<>>
    /\ character = [index |-> 0, line |-> 1, column |-> 1, value |-> "a",
                    type |-> csClassify("a")]

(***************************************************************************)
(* C21: iterator protocol of CharacterStream.  The cursor counts the       *)
(* characters handed out since the stream was made or reset.  A call of    *)
(* next() with cursor < n returns done = false with the source character   *)
(* at index cursor and moves the cursor on by one, so the first n calls    *)
(* give the n source characters in order, each once; a call with cursor    *)
(* = n returns done = true with an EOF-typed character and changes         *)
(* nothing, so a for...of loop stops there without yielding the EOF.       *)
(***************************************************************************)
C21_IteratorProtocol ==
    [][(csOp' = "next" /\ csOps' = csOps + 1) =>
          IF cursor < Len(csSource)
          THEN /\ csRet'.done = FALSE
               /\ csRet'.value.value = csSource[cursor + 1]
               /\ csRet'.value.index = cursor
               /\ csRet'.value.type # "EOF"
               /\ cursor' = cursor + 1
               /\ history' = Append(history, csRet'.value)
               /\ Len(history') = cursor'
          ELSE /\ csRet'.done = TRUE
               /\ csRet'.value.type = "EOF"
               /\ cursor' = cursor
               /\ character' = character
               /\ history' = history
               /\ Len(history) = Len(csSource)]_vars

C21_Witness ==
    /\ csSource = <<"a", "\n", "1">>
    /\ csOp = "next"
    /\ csRet.done
    /\ csRet.value.type = "EOF"
    /\ csOps = 4
    /\ Len(history) = 3
    /\ \A k \in 1..3 : history[k].value = csSource[k] /\ history[k].index = k - 1

(***************************************************************************)
(* C22: in every state of a CharacterStream 0 <= cursor <= source.length;  *)
(* the current character is EOF-typed exactly when cursor = source.length  *)
(* (an empty source starts at EOF); a current character that is not EOF    *)
(* carries the source character at index cursor.                           *)
(***************************************************************************)
C22_CursorInBounds ==
    /\ 0 <= cursor
    /\ cursor <= Len(csSource)
    /\ character.type = "EOF" <=> cursor = Len(csSource)
    /\ character.index = cursor
    /\ character.type # "EOF" =>
          /\ cursor < Len(csSource)
          /\ character.value = csSource[cursor + 1]
    /\ character.type = "EOF" => character.value = ""

C22_Witness ==
    /\ csSource = <<"a", "\n", "1">>
    /\ csOp = "consume"
    /\ cursor = 3
    /\ character.type = "EOF"
    /\ Len(history) = 3

(***************************************************************************)
(* C23: the caret line of formatDiagnostic, the fourth line of its text,   *)
(* is exactly start.column - 1 spaces followed by                          *)
(* max(1, end.index - start.index) carets; a zero-width span gets one      *)
(* caret.                                                                  *)
(***************************************************************************)
\* the lines of a text: split at every "\n" piece, from 1-based i, line so far acc
RECURSIVE linesFrom(_, _, _)
linesFrom(text, i, acc) ==
    IF i > Len(text) THEN <<acc>>
    ELSE IF text[i] = "\n" THEN <<acc>> \o linesFrom(text, i + 1, <<>>)
    ELSE linesFrom(text, i + 1, Append(acc, text[i]))

LinesOf(text) == linesFrom(text, 1, <<>>)

\* n copies of ch
Copies(ch, n) == [k \in 1..n |-> ch]

\* the text formatDiagnostic returned
Formatted == pc = "idle" /\ Len(console) = 1

C23_CaretLine ==
    Formatted =>
        LET out == LinesOf(console[1])
            w   == error.end.index - error.start.index
        IN  /\ Len(out) >= 4
            /\ out[4] = Copies(" ", error.start.column - 1)
                          \o Copies("^", IF w >= 1 THEN w ELSE 1)

C23_Witness ==
    /\ Formatted
    /\ source = <<"a", "a", "a">>
    /\ error.start.column = 5
    /\ error.end.index = error.start.index + 1
    /\ LinesOf(console[1])[4] = <<" ", " ", " ", " ", "^">>

(***************************************************************************)
(* C24: the text formatDiagnostic returns.  As claimed: the lines          *)
(* "<message> (line L, column C)", an empty line, the start.line-th line   *)
(* of the source, the caret line, then the hint text itself when a hint    *)
(* is present and nothing further when there is none.  As the code has     *)
(* it: the same four lines, then one more line break; with a hint a        *)
(* further line "Hint: <hint>" follows it, without one the text ends       *)
(* after that line break.                                                  *)
(***************************************************************************)
\* line n (1-indexed) of src split on \n or \r\n, '' beyond the last line
NthLine(src, n) ==
    LET ls == LinesOf(src)
    IN  IF n < 1 \/ n > Len(ls) THEN <<>>
        ELSE IF n < Len(ls) /\ Len(ls[n]) > 0 /\ ls[n][Len(ls[n])] = "\r"
        THEN SubSeq(ls[n], 1, Len(ls[n]) - 1)
        ELSE ls[n]

\* "<message> (line L, column C)"
HeaderLine(err) ==
    <<err.message, " (", "line ", ToString(err.start.line), ", column ",
      ToString(err.start.column), ")">>

\* the first four lines of the text
FourLines(err) ==
    LET w == err.end.index - err.start.index
    IN  << HeaderLine(err),
           <<>>,
           NthLine(err.source, err.start.line),
           Copies(" ", err.start.column - 1) \o Copies("^", IF w >= 1 THEN w ELSE 1) >>

AloneStream == [][CsConsume \/ CsNext \/ CsReset]_csVars

\* the second stream on its own
AlonePeer ==
    [][peer' \in {peerConsume(peer), peerNext(peer), newStream(peer.source)}]_peer

\* the Tokenizer on its own
AloneTokenizer ==
    [][Construct \/ Tokenize \/ EmitEOF \/ StringStart \/ StringStep \/ DfaStart
         \/ DfaStep \/ Emit \/ Catch]_tokVars

\* each drained stream has handed out what a run on its own hands out
AloneResults ==
    /\ character.type = "EOF" => history = FirstRun(csSource)
    /\ peer.character.type = "EOF" => peer.history = FirstRun(peer.source)

C26_InvalidTokenUnreachable ==
    /\ pc = "emit" => (state = "Start" \/ Accepting(state) # Undefined)
    /\ ~(DiagnosticRaised /\ error.message = "Invalid token")

(***************************************************************************)
(* C27: for every input, tokenize() of NewLexer.ts terminates and returns  *)
(* a list whose last element is the '<end>' token.                         *)
(***************************************************************************)
C27_TerminatesWithEnd ==
    <>(/\ pc = "idle"
       /\ tokens # <<>>
       /\ Last(tokens).type = "<end>")

(***************************************************************************)
(* C28: a '+' or '-' directly followed by a digit, or by '.' and a digit,  *)
(* belongs to the number: the first token of such an input is one numeric  *)
(* token whose text starts with the sign, not a PLUS or MINUS token.       *)
(***************************************************************************)
\* src starts with a sign and a number text
SignedNumberAtStart(src) ==
    /\ charAt(src, 0) \in {"+", "-"}
    /\ \/ charAt(src, 1) \in Digits
       \/ charAt(src, 1) = "." /\ charAt(src, 2) \in Digits

C28_SignedNumber ==
    (Constructed /\ SignedNumberAtStart(source)) =>
        /\ tokens # <<>>
        /\ tokens[1].type \in {"NUMBER", "PERCENT", "DIMENSION"}
        /\ tokens[1].start.index = 0
        /\ tokens[1].end.index >= 2
        /\ tokens[1].value # <<>>
        /\ tokens[1].value[1] = charAt(source, 0)

(***************************************************************************)
(* C29: for '#' followed by 3, 4, 6 or 8 hex digits DFATokenizer.tokenize  *)
(* returns exactly one HEXCOLOR token (and the EOF token) and raises no    *)
(* diagnostic.                                                             *)
(***************************************************************************)
\* hex digits among the characters of DfaAlphabet
DfaHexDigits == {"f", "1"}

\* src is '#' and 3, 4, 6 or 8 hex digits
IsHexColor(src) ==
    /\ Len(src) - 1 \in ValidHexLengths
    /\ src[1] = "#"
    /\ \A k \in 2..Len(src) : src[k] \in DfaHexDigits

C29_HexColorToken ==
    (pc = "idle" /\ calls >= 1 /\ IsHexColor(source)) =>
        /\ ~thrown
        /\ error = NoError
        /\ Len(tokens) = 2
        /\ tokens[1].type = HEXCOLOR
        /\ tokens[1].value = source
        /\ tokens[2].type = EOF

(***************************************************************************)
(* C30: only hex digits are consumed into a hex token: when '#' is         *)
(* followed by a letter that is not a hex digit no HEXVALUE token is       *)
(* produced and the first token is the '#' alone, a DELIMITER.             *)
(***************************************************************************)
\* '#' at index 0 followed by a letter that is no hex digit
HashThenNonHexLetter(src) ==
    /\ charAt(src, 0) = "#"
    /\ charAt(src, 1) \in Letters \ HexDigits

C30_OnlyHexDigits ==
    (Constructed /\ HashThenNonHexLetter(source)) =>
        /\ \A k \in 1..Len(tokens) : tokens[k].type # "HEXVALUE"
        /\ tokens # <<>>
        /\ tokens[1].type = "DELIMITER"
        /\ tokens[1].value = <<"#">>

(***************************************************************************)
(* C31: an identifier is the maximal run of letters, digits, '_' and '-'   *)
(* that begins with a letter: a source that is one such run is tokenized   *)
(* as exactly one IDENTIFIER token followed by EOF.                        *)
(***************************************************************************)
\* identifier characters among the characters of Alphabet
IdentChars == Letters \cup Digits \cup {"-"}

\* src is a letter followed by identifier characters only
IsIdentifier(src) ==
    /\ src # <<>>
    /\ src[1] \in Letters
    /\ \A k \in 1..Len(src) : src[k] \in IdentChars

C31_IdentifierRun ==
    (Constructed /\ IsIdentifier(source)) =>
        /\ Len(tokens) = 2
        /\ tokens[1].type = "IDENTIFIER"
        /\ tokens[1].value = source
        /\ tokens[2].type = "EOF"

(***************************************************************************)
(* C32: every NUMBER token has text of the README number grammar: it       *)
(* contains at least one digit and every '.' in it is immediately followed *)
(* by a digit; a lone "." or a trailing-dot form "1." is never a NUMBER.   *)
(***************************************************************************)
\* text has a digit, and a digit after each of its dots
NumberText(text) ==
    /\ \E k \in 1..Len(text) : text[k] \in Digits
    /\ \A k \in 1..Len(text) :
          text[k] = "." => (k < Len(text) /\ text[k + 1] \in Digits)

C32_NumberGrammar ==
    \A k \in 1..Len(tokens) :
        tokens[k].type = "NUMBER" => NumberText(tokens[k].value)

(***************************************************************************)
(* C33: the EOF character of a CharacterStream sits immediately after the  *)
(* last source character: its index is the source length, and its line and *)
(* column are those a further character there would get: the same line and *)
(* one column on, or line + 1 and column 1 when the last character is a    *)
(* newline.                                                                *)
(***************************************************************************)
\* the line and column of a character that follows prev
FollowerOf(prev) ==
    IF prev.value = "\n" \/ prev.type = "Newline"
    THEN [line |-> prev.line + 1, column |-> 1]
    ELSE [line |-> prev.line, column |-> prev.column + 1]

\* where the EOF character belongs once hist holds every source character
EofPlace(src, hist) ==
    IF hist = <<>> THEN EofCharacter(Len(src), 1, 1)
    ELSE EofCharacter(Len(src), FollowerOf(hist[Len(hist)]).line,
                      FollowerOf(hist[Len(hist)]).column)

C33_EofPosition ==
    character.type = "EOF" => character = EofPlace(csSource, history)

(***************************************************************************)
(* C34: at every point of tokenize the cursor satisfies                    *)
(* 0 <= index <= source.length: consume() never runs at the end of the     *)
(* source, so every token ends at or before source.length and the EOF      *)
(* token starts at source.length.                                          *)
(***************************************************************************)
C34_IndexInBounds ==
    /\ 0 <= index
    /\ index <= Len(source)
    /\ \A k \in 1..Len(tokens) :
          /\ tokens[k].end.index <= Len(source)
          /\ tokens[k].type = "EOF" => tokens[k].start.index = Len(source)

(***************************************************************************)
(* C35: one-step rewind in CharStream.  As claimed: consume() followed by  *)
(* rewind() restores the position to its value before the consume and      *)
(* removes the last history entry, rewind() returns the token just         *)
(* consumed, and the next consume() returns a token with the same          *)
(* character and position; rewind() on an empty history returns null and   *)
(* changes nothing.  This fails when the consume() was made at the end of  *)
(* the input: it returns the EOF token and records nothing, and rewind()   *)
(* then takes back the last character consumed before it.  It holds for    *)
(* every consume() that returns a character.                               *)
(***************************************************************************)
\* the last token handed to the caller, as it was when handed over
LastHanded == issued[Len(issued)]

\* this step is a rewind() called right after a consume()
RewindAfterConsume == tsLast.op = "consume" /\ tsLast'.op = "rewind"

\* the rewind() of this step undoes the consume() before it
Undone ==
    /\ charStream'.position = tsLast.before.position
    /\ charStream'.history = tsLast.before.history
    /\ tsLast'.ret = tsLast.ret

\* this step is a consume() called right after a rewind() that returned a
\* token, and it returns a token equal to that one as it was returned
ConsumedAgain ==
    (tsLast.op = "rewind" /\ tsLast.ret # 0 /\ tsLast'.op = "consume") =>
        /\ heap'[tsLast'.ret].char = heap[tsLast.ret].char
        /\ heap'[tsLast'.ret].class = heap[tsLast.ret].class
        /\ heap'[tsLast'.ret].position = LastHanded.position

\* this step is a rewind() on an empty history: null, and nothing changes
RewindOnEmpty ==
    (charStream.history = <<>> /\ tsLast'.op = "rewind" /\ tsOps' = tsOps + 1) =>
        /\ tsLast'.ret = 0
        /\ UNCHANGED <<charStream, heap, live, issued>>

C35_RewindAsClaimed ==
    [][ /\ RewindAfterConsume => Undone
        /\ ConsumedAgain
        /\ RewindOnEmpty ]_vars

C35_Rewind ==
    [][ /\ (RewindAfterConsume /\ heap[tsLast.ret].class # "EOF") => Undone
        /\ ConsumedAgain
        /\ RewindOnEmpty ]_vars

\* a character of the second line was consumed, taken back and consumed again
C35_Witness ==
    /\ Len(issued) >= 4
    /\ tsLast.op = "consume"
    /\ heap[tsLast.ret].position.line = 2
    /\ issued[Len(issued) - 1].id = issued[Len(issued) - 2].id
    /\ heap[tsLast.ret].class # "EOF"
    /\ charStream.position = Pos(2, 2, 2)

(***************************************************************************)
(* C36: positions are value snapshots in CharStream: the position stored   *)
(* in a CharToken returned by peek(), consume() or rewind() never changes  *)
(* afterwards, whatever consume / rewind / reset calls follow.             *)
(***************************************************************************)
C36_PositionSnapshots ==
    \A k \in 1..Len(issued) : heap[issued[k].id].position = issued[k].position

(***************************************************************************)
(* C37: [Symbol.iterator]() resets the stream and returns the stream       *)
(* itself, so all iterators of one stream share one cursor: obtaining an   *)
(* iterator while an iteration is in progress takes the stream back to     *)
(* its first character, and every next() made through any of the           *)
(* iterators yields the next character of the one pass under way, never a  *)
(* character already yielded since the last reset.                         *)
(***************************************************************************)
\* this step is a call of op on the stream
CsCalls(op) == csOp' = op /\ csOps' = csOps + 1

\* the stream is at its first character with nothing yielded
Rewound ==
    /\ cursor' = 0
    /\ history' = <<>>
    /\ character' = initCharacter(csSource)

\* this next() yields the character that follows those already yielded
YieldsNextOfPass ==
    /\ csRet'.value.index = Len(history)
    /\ csRet'.value.value = csSource[Len(history) + 1]
    /\ history' = Append(history, csRet'.value)

C37_IteratorsShareCursor ==
    [][ /\ CsCalls("iterator") => Rewound
        /\ (CsCalls("next") /\ ~csRet'.done) => YieldsNextOfPass ]_vars

\* an iterator was obtained after at least two other calls on a stream that
\* has characters
C37_Witness ==
    /\ csOp = "iterator"
    /\ csOps >= 3
    /\ Len(csSource) >= 2
    /\ cursor = 0

(***************************************************************************)
(* C38: after any sequence of append, prepend, insertAt, removeAt,         *)
(* removeHead and removeTail calls, those that throw included, the list    *)
(* is well formed: size is the number of nodes reachable from head via     *)
(* next and from tail via prev, head.prev and tail.next are null,          *)
(* n.next.prev is n for every node n with a successor, and head and tail   *)
(* are both null exactly when size is 0.                                   *)
(***************************************************************************)
\* the nodes from n along next, at most k of them
RECURSIVE Forward(_, _)
Forward(n, k) ==
    IF n = NullNode \/ k = 0 THEN <<>> ELSE <<n>> \o Forward(nodes[n].next, k - 1)

\* the nodes from n along prev, at most k of them
RECURSIVE Backward(_, _)
Backward(n, k) ==
    IF n = NullNode \/ k = 0 THEN <<>> ELSE <<n>> \o Backward(nodes[n].prev, k - 1)

\* the nodes of the list from head; a walk longer than the number of nodes
\* created shows a cycle
FromHead == Forward(head, Len(nodes) + 1)
FromTail == Backward(tail, Len(nodes) + 1)

C38_WellFormed ==
    /\ Len(FromHead) = size
    /\ Len(FromTail) = size
    /\ head # NullNode => nodes[head].prev = NullNode
    /\ tail # NullNode => nodes[tail].next = NullNode
    /\ \A k \in 1..Len(FromHead) :
          nodes[FromHead[k]].next # NullNode =>
              nodes[nodes[FromHead[k]].next].prev = FromHead[k]
    /\ (head = NullNode /\ tail = NullNode) <=> size = 0
    /\ (head = NullNode) <=> (tail = NullNode)

\* a node was unlinked from the middle of a list of three
C38_Witness ==
    /\ llLast.op = "removeAt"
    /\ ~llLast.thrown
    /\ llLast.before.size = 3
    /\ llLast.position = 1
    /\ size = 2
    /\ llOps = 2

(***************************************************************************)
(* C39: insertAt(data, p) succeeds for every position 0 <= p <= size:      *)
(* afterwards getAt(p) returns data, size has grown by one and the other   *)
(* elements keep their order; p = size appends at the tail and p = 0 on an *)
(* empty list inserts the first element; only p < 0 or p > size throws.    *)
(***************************************************************************)
\* s with d put in at 0-based position p
InsertedAt(s, d, p) == SubSeq(s, 1, p) \o <<d>> \o SubSeq(s, p + 1, Len(s))

\* the data of the list in order from head
Contents == dataFrom(nodes, head, Len(nodes))

C39_InsertAt ==
    llLast.op = "insertAt" =>
        IF 0 <= llLast.position /\ llLast.position <= llLast.before.size
        THEN /\ ~llLast.thrown
             /\ size = llLast.before.size + 1
             /\ ~getAt(theList, llLast.position).thrown
             /\ getAt(theList, llLast.position).ret = llLast.data
             /\ Contents = InsertedAt(llLast.before.data, llLast.data, llLast.position)
        ELSE llLast.thrown

====
